---- MODULE Spec2Model ----
(***************************************************************************)
(* Coordinator memory: the workflow phase machine, the handover protocol   *)
(* and the persisted aggregate of .coordinator/coordinator_memory.py.      *)
(*                                                                         *)
(* One CoordinatorMemory handle is modelled: `state` is self._state, `disk`*)
(* is the backing file, `uuid` counts the ids uuid4() has handed out.      *)
(* `last` and `prev` are history variables: the last public call with its  *)
(* result and number of durable writes, and self._state as it was when     *)
(* that call was entered.  `now` is the wall clock that blockers, pending   *)
(* actions and decisions are stamped with; the timestamps of the          *)
(* transition and handover logs are not modelled: no operation of this     *)
(* module reads them.  `backup` is the backup path a failed load renames   *)
(* the backing file to.                                                    *)
(* For the calls that run concurrently, `mem` holds self._state of each    *)
(* worker's handle, `pc` each worker's position in its call, `lock` the    *)
(* holder of the lock file (0: nobody), `tmp` the temporary path and       *)
(* `snapshots` (history) the documents that saves have serialized.         *)
(* `call` holds, for the calls taken statement by statement, each         *)
(* worker's call in progress: the operation, its arguments, its result.    *)
(***************************************************************************)
EXTENDS Integers, Sequences, FiniteSets, TLC

VARIABLES state, disk, uuid, last, prev, now, backup, mem, pc, lock, tmp, snapshots, call

workers == <<mem, pc, lock, tmp, snapshots, call>>

vars == <<state, disk, uuid, last, prev, now, backup, workers>>

\* ------------------------------------------------------------------ bounds
MaxHistory == 3
MaxHandovers == 2
MaxLongHistory == 11
NWorkers == 3

\* ------------------------------------------------------------ enumerations
None == "None"

\* list(WorkflowState): the declaration order is the forward delivery order.
WorkflowState ==
  << "INIT", "REQUIREMENTS", "ARCHITECTURE", "DEVELOPMENT", "CI_CD",
     "REVIEW", "TESTING", "PERFORMANCE", "VALIDATION", "COMPLETE" >>

States == { WorkflowState[i] : i \in 1..Len(WorkflowState) }

AgentStatus == { "IDLE", "WORKING", "BLOCKED", "COMPLETE" }

HandoverStatus == { "APPROVED", "REJECTED" }

\* ------------------------------------------------------- StateTransitions
VALID_TRANSITIONS ==
  [ INIT         |-> {"REQUIREMENTS"},
    REQUIREMENTS |-> {"ARCHITECTURE"},
    ARCHITECTURE |-> {"DEVELOPMENT", "REQUIREMENTS"},
    DEVELOPMENT  |-> {"CI_CD", "ARCHITECTURE"},
    CI_CD        |-> {"REVIEW", "DEVELOPMENT"},
    REVIEW       |-> {"TESTING", "DEVELOPMENT", "ARCHITECTURE"},
    TESTING      |-> {"PERFORMANCE", "DEVELOPMENT"},
    PERFORMANCE  |-> {"VALIDATION", "DEVELOPMENT"},
    VALIDATION   |-> {"COMPLETE", "REQUIREMENTS"},
    COMPLETE     |-> {} ]

\* cls._VALID_TRANSITIONS.get(from_state, set())
get_valid_targets(from_state) ==
  IF from_state \in DOMAIN VALID_TRANSITIONS
    THEN VALID_TRANSITIONS[from_state]
    ELSE {}

\* Mutant: the lookup made with the two phases exchanged.
is_valid_transition_swapped(from_state, to_state) ==
  IF to_state \in DOMAIN VALID_TRANSITIONS
    THEN from_state \in VALID_TRANSITIONS[to_state]
    ELSE FALSE

\* Mutant: no phase leads to COMPLETE.
is_valid_transition_never_completes(from_state, to_state) ==
  IF from_state \in DOMAIN VALID_TRANSITIONS
    THEN to_state # "COMPLETE" /\ to_state \in VALID_TRANSITIONS[from_state]
    ELSE FALSE

\* Mutant: a completed workflow may start over.
is_valid_transition_restarts(from_state, to_state) ==
  IF from_state = "COMPLETE"
    THEN to_state = "INIT"
    ELSE to_state \in VALID_TRANSITIONS[from_state]

is_valid_transition(from_state, to_state) ==
  IF from_state \in DOMAIN VALID_TRANSITIONS
    THEN to_state \in VALID_TRANSITIONS[from_state]
    ELSE FALSE

\* ---------------------------------------------------------------- messages
\* An f-string is kept as its template and the values formatted into it;
\* the joined valid targets are kept as the set that is joined.
NoMessage == [ text |-> None, args |-> <<>>, targets |-> {} ]

MismatchMessage(current, from_state) ==
  [ text    |-> "Current state is {0}, expected {1}",
    args    |-> <<current, from_state>>,
    targets |-> {} ]

\* Mutant: the message lists the targets of the requested phase.
InvalidMessage_targets_of_to(from_state, to_state) ==
  [ text    |-> "Invalid transition from {0} to {1}. Valid targets: {2}",
    args    |-> <<from_state, to_state>>,
    targets |-> get_valid_targets(to_state) ]

InvalidMessage(from_state, to_state) ==
  [ text    |-> "Invalid transition from {0} to {1}. Valid targets: {2}",
    args    |-> <<from_state, to_state>>,
    targets |-> get_valid_targets(from_state) ]

HandoverReason(from_agent, to_agent) ==
  << "Handover from {0} to {1}", from_agent, to_agent >>

HandedOverOutput(to_agent) == << "Handed over to {0}", to_agent >>

ReceivedOutput(from_agent) == << "Received handover from {0}", from_agent >>

\* ------------------------------------------------------------ data classes
\* An Optional field that is not a string holds <<>> for None and <<v>> for
\* the value v; a timestamp is the reading of the wall clock.
Feature(name, branch, description, started_at) ==
  [ name                |-> name,
    branch              |-> branch,
    description         |-> description,
    started_at          |-> started_at,
    acceptance_criteria |-> <<>>,
    linked_issues       |-> <<>> ]

StateTransition(from_state, to_state, reason, context) ==
  [ from_state |-> from_state,
    to_state   |-> to_state,
    reason     |-> reason,
    approved   |-> TRUE,
    context    |-> context ]

NoTransition ==
  [ from_state |-> None, to_state |-> None, reason |-> <<>>,
    approved |-> FALSE, context |-> None ]

\* Mutant: the record is built without its rejection reason.
HandoverRecord_no_reason(id, from_agent, to_agent, from_state, to_state, reason, status, rejection_reason) ==
  [ id               |-> id,
    from_agent       |-> from_agent,
    to_agent         |-> to_agent,
    from_state       |-> from_state,
    to_state         |-> to_state,
    reason           |-> reason,
    status           |-> status,
    context          |-> None,
    artifacts        |-> <<>>,
    rejection_reason |-> [ text |-> None, args |-> <<>>, targets |-> {} ] ]

HandoverRecord(id, from_agent, to_agent, from_state, to_state, reason, status, rejection_reason) ==
  [ id               |-> id,
    from_agent       |-> from_agent,
    to_agent         |-> to_agent,
    from_state       |-> from_state,
    to_state         |-> to_state,
    reason           |-> reason,
    status           |-> status,
    context          |-> None,
    artifacts        |-> <<>>,
    rejection_reason |-> rejection_reason ]

NoHandover ==
  HandoverRecord(0, None, None, None, None, <<>>, None, NoMessage)

PendingAction(id, action, owner, created_at, priority, status, due_by, completed_at) ==
  [ id           |-> id,
    action       |-> action,
    owner        |-> owner,
    created_at   |-> created_at,
    priority     |-> priority,
    status       |-> status,
    due_by       |-> due_by,
    completed_at |-> completed_at ]

Blocker(id, description, impact, created_at, status, affected_state, affected_agent, resolved_at, resolution) ==
  [ id             |-> id,
    description    |-> description,
    impact         |-> impact,
    created_at     |-> created_at,
    status         |-> status,
    affected_state |-> affected_state,
    affected_agent |-> affected_agent,
    resolved_at    |-> resolved_at,
    resolution     |-> resolution ]

DecisionRecord(id, timestamp, decision, rationale, context, outcome) ==
  [ id        |-> id,
    timestamp |-> timestamp,
    decision  |-> decision,
    rationale |-> rationale,
    context   |-> context,
    outcome   |-> outcome ]

\* AgentContext(): the dataclass defaults.
AgentContext ==
  [ status        |-> "IDLE",
    last_active   |-> None,
    last_output   |-> <<>>,
    work_products |-> <<>>,
    metadata      |-> <<>> ]

ReworkPattern(from_state, to_state, count, reason) ==
  [ from_state |-> from_state, to_state |-> to_state,
    count |-> count, reason |-> reason ]

\* ------------------------------------------------------------------ roster
Roster ==
  { "Coordinator", "Requirements Engineer", "Tech Lead", "Developer",
    "DevOps Engineer", "Reviewer", "Tester / QA", "Performance Engineer",
    "Documentation Agent" }

create_initial_state ==
  [ current_state    |-> "INIT",
    current_feature  |-> <<>>,
    state_history    |-> <<>>,
    handover_log     |-> <<>>,
    agent_context    |->
      [ agent \in Roster |->
          [ AgentContext EXCEPT
              !.last_output = IF agent = "Coordinator"
                                THEN <<"Coordinator initialized">> ELSE <<>>,
              !.last_active = IF agent = "Coordinator" THEN "now" ELSE None ] ],
    pending_actions  |-> <<>>,
    blockers         |-> <<>>,
    metrics          |->
      [ total_features     |-> 0,
        total_handovers    |-> 0,
        rejected_handovers |-> 0,
        average_cycle_time |-> 0,
        state_cycle_times  |-> [ s \in States |-> 0 ],
        rework_patterns    |-> <<>>,
        agent_utilization  |-> [ agent \in Roster |-> 0 ] ],
    decisions        |-> <<>> ]

\* ------------------------------------------------------------ serialization
\* to_camel_case on the snake_case keys of this model: the first component,
\* then the title-cased others.
CamelCase ==
  [ current_state      |-> "currentState",
    current_feature    |-> "currentFeature",
    state_history      |-> "stateHistory",
    handover_log       |-> "handoverLog",
    agent_context      |-> "agentContext",
    pending_actions    |-> "pendingActions",
    from_state         |-> "fromState",
    to_state           |-> "toState",
    from_agent         |-> "fromAgent",
    to_agent           |-> "toAgent",
    rejection_reason   |-> "rejectionReason",
    last_active        |-> "lastActive",
    last_output        |-> "lastOutput",
    work_products      |-> "workProducts",
    total_features     |-> "totalFeatures",
    total_handovers    |-> "totalHandovers",
    rejected_handovers |-> "rejectedHandovers",
    average_cycle_time |-> "averageCycleTime",
    state_cycle_times  |-> "stateCycleTimes",
    rework_patterns    |-> "reworkPatterns",
    agent_utilization  |-> "agentUtilization",
    started_at          |-> "startedAt",
    acceptance_criteria |-> "acceptanceCriteria",
    linked_issues       |-> "linkedIssues",
    created_at          |-> "createdAt",
    affected_state      |-> "affectedState",
    affected_agent      |-> "affectedAgent",
    resolved_at         |-> "resolvedAt",
    due_by              |-> "dueBy",
    completed_at        |-> "completedAt",
    qa_agent            |-> "qaAgent" ]

to_camel_case(key) == CamelCase[key]

\* What should_convert_key looks at in a key: key.isupper(), ' ' in key and
\* '_' in key, for the field names, agent names and workflow states that are
\* keys in this model.
UpperKeys == States

SpaceKeys ==
  { "Requirements Engineer", "Tech Lead", "DevOps Engineer", "Tester / QA",
    "Performance Engineer", "Documentation Agent", "Guest Agent" }

UnderscoreKeys == DOMAIN CamelCase \cup { "CI_CD" }

\* _serialize_state.should_convert_key
should_convert_key(key) ==
  IF key \in UpperKeys THEN FALSE
  ELSE IF key \in SpaceKeys THEN FALSE
  ELSE key \in UnderscoreKeys

\* The snake_case key each camelCase key of CamelCase comes from.
SnakeCase ==
  [ c \in { CamelCase[k] : k \in DOMAIN CamelCase } |->
      CHOOSE k \in DOMAIN CamelCase : CamelCase[k] = c ]

\* _serialize_state.convert_keys on one dict: every key goes through
\* should_convert_key, a field name and a map key alike.  No dict of this
\* model holds a key together with its own camelCase form, so each new key
\* has one source.
convert_keys(obj) ==
  LET new_key(k) == IF should_convert_key(k) THEN to_camel_case(k) ELSE k
  IN  [ nk \in { new_key(k) : k \in DOMAIN obj } |->
          IF nk \in DOMAIN obj /\ ~ should_convert_key(nk)
            THEN obj[nk]
            ELSE obj[SnakeCase[nk]] ]

\* convert_keys on a list of dicts
convert_list(list) == [ i \in 1..Len(list) |-> convert_keys(list[i]) ]

\* _serialize_state: convert_keys(asdict(state)), level by level
serialize_state(s) ==
  convert_keys(
    [ s EXCEPT
        !.current_feature = convert_list(@),
        !.state_history = convert_list(@),
        !.handover_log  = convert_list(@),
        !.pending_actions = convert_list(@),
        !.blockers      = convert_list(@),
        !.decisions     = convert_list(@),
        !.agent_context =
          convert_keys([ k \in DOMAIN @ |-> convert_keys(@[k]) ]),
        !.metrics       =
          convert_keys(
            [ @ EXCEPT !.state_cycle_times = convert_keys(@),
                       !.rework_patterns   = convert_list(@),
                       !.agent_utilization = convert_keys(@) ]) ])

\* ---------------------------------------------------------- deserialization
\* The characters of the keys that a document of this model can hold, and of
\* the keys that to_snake_case makes of them.
KeyChars ==
  [ currentState |-> << "c", "u", "r", "r", "e", "n", "t", "S", "t", "a", "t", "e" >>,
    currentFeature |-> << "c", "u", "r", "r", "e", "n", "t", "F", "e", "a", "t", "u", "r", "e" >>,
    stateHistory |-> << "s", "t", "a", "t", "e", "H", "i", "s", "t", "o", "r", "y" >>,
    handoverLog |-> << "h", "a", "n", "d", "o", "v", "e", "r", "L", "o", "g" >>,
    agentContext |-> << "a", "g", "e", "n", "t", "C", "o", "n", "t", "e", "x", "t" >>,
    pendingActions |-> << "p", "e", "n", "d", "i", "n", "g", "A", "c", "t", "i", "o", "n", "s" >>,
    fromState |-> << "f", "r", "o", "m", "S", "t", "a", "t", "e" >>,
    toState |-> << "t", "o", "S", "t", "a", "t", "e" >>,
    fromAgent |-> << "f", "r", "o", "m", "A", "g", "e", "n", "t" >>,
    toAgent |-> << "t", "o", "A", "g", "e", "n", "t" >>,
    rejectionReason |-> << "r", "e", "j", "e", "c", "t", "i", "o", "n", "R", "e", "a", "s", "o", "n" >>,
    lastActive |-> << "l", "a", "s", "t", "A", "c", "t", "i", "v", "e" >>,
    lastOutput |-> << "l", "a", "s", "t", "O", "u", "t", "p", "u", "t" >>,
    workProducts |-> << "w", "o", "r", "k", "P", "r", "o", "d", "u", "c", "t", "s" >>,
    totalFeatures |-> << "t", "o", "t", "a", "l", "F", "e", "a", "t", "u", "r", "e", "s" >>,
    totalHandovers |-> << "t", "o", "t", "a", "l", "H", "a", "n", "d", "o", "v", "e", "r", "s" >>,
    rejectedHandovers |-> << "r", "e", "j", "e", "c", "t", "e", "d", "H", "a", "n", "d", "o", "v", "e", "r", "s" >>,
    averageCycleTime |-> << "a", "v", "e", "r", "a", "g", "e", "C", "y", "c", "l", "e", "T", "i", "m", "e" >>,
    stateCycleTimes |-> << "s", "t", "a", "t", "e", "C", "y", "c", "l", "e", "T", "i", "m", "e", "s" >>,
    reworkPatterns |-> << "r", "e", "w", "o", "r", "k", "P", "a", "t", "t", "e", "r", "n", "s" >>,
    agentUtilization |-> << "a", "g", "e", "n", "t", "U", "t", "i", "l", "i", "z", "a", "t", "i", "o", "n" >>,
    startedAt |-> << "s", "t", "a", "r", "t", "e", "d", "A", "t" >>,
    acceptanceCriteria |-> << "a", "c", "c", "e", "p", "t", "a", "n", "c", "e", "C", "r", "i", "t", "e", "r", "i", "a" >>,
    linkedIssues |-> << "l", "i", "n", "k", "e", "d", "I", "s", "s", "u", "e", "s" >>,
    createdAt |-> << "c", "r", "e", "a", "t", "e", "d", "A", "t" >>,
    affectedState |-> << "a", "f", "f", "e", "c", "t", "e", "d", "S", "t", "a", "t", "e" >>,
    affectedAgent |-> << "a", "f", "f", "e", "c", "t", "e", "d", "A", "g", "e", "n", "t" >>,
    resolvedAt |-> << "r", "e", "s", "o", "l", "v", "e", "d", "A", "t" >>,
    dueBy |-> << "d", "u", "e", "B", "y" >>,
    completedAt |-> << "c", "o", "m", "p", "l", "e", "t", "e", "d", "A", "t" >>,
    reason |-> << "r", "e", "a", "s", "o", "n" >>,
    approved |-> << "a", "p", "p", "r", "o", "v", "e", "d" >>,
    context |-> << "c", "o", "n", "t", "e", "x", "t" >>,
    id |-> << "i", "d" >>,
    status |-> << "s", "t", "a", "t", "u", "s" >>,
    artifacts |-> << "a", "r", "t", "i", "f", "a", "c", "t", "s" >>,
    metadata |-> << "m", "e", "t", "a", "d", "a", "t", "a" >>,
    count |-> << "c", "o", "u", "n", "t" >>,
    metrics |-> << "m", "e", "t", "r", "i", "c", "s" >>,
    blockers |-> << "b", "l", "o", "c", "k", "e", "r", "s" >>,
    decisions |-> << "d", "e", "c", "i", "s", "i", "o", "n", "s" >>,
    name |-> << "n", "a", "m", "e" >>,
    branch |-> << "b", "r", "a", "n", "c", "h" >>,
    description |-> << "d", "e", "s", "c", "r", "i", "p", "t", "i", "o", "n" >>,
    impact |-> << "i", "m", "p", "a", "c", "t" >>,
    resolution |-> << "r", "e", "s", "o", "l", "u", "t", "i", "o", "n" >>,
    action |-> << "a", "c", "t", "i", "o", "n" >>,
    owner |-> << "o", "w", "n", "e", "r" >>,
    priority |-> << "p", "r", "i", "o", "r", "i", "t", "y" >>,
    timestamp |-> << "t", "i", "m", "e", "s", "t", "a", "m", "p" >>,
    decision |-> << "d", "e", "c", "i", "s", "i", "o", "n" >>,
    rationale |-> << "r", "a", "t", "i", "o", "n", "a", "l", "e" >>,
    outcome |-> << "o", "u", "t", "c", "o", "m", "e" >>,
    bogus |-> << "b", "o", "g", "u", "s" >>,
    Coordinator |-> << "C", "o", "o", "r", "d", "i", "n", "a", "t", "o", "r" >>,
    Developer |-> << "D", "e", "v", "e", "l", "o", "p", "e", "r" >>,
    Reviewer |-> << "R", "e", "v", "i", "e", "w", "e", "r" >>,
    INIT |-> << "I", "N", "I", "T" >>,
    REQUIREMENTS |-> << "R", "E", "Q", "U", "I", "R", "E", "M", "E", "N", "T", "S" >>,
    ARCHITECTURE |-> << "A", "R", "C", "H", "I", "T", "E", "C", "T", "U", "R", "E" >>,
    DEVELOPMENT |-> << "D", "E", "V", "E", "L", "O", "P", "M", "E", "N", "T" >>,
    CI_CD |-> << "C", "I", "_", "C", "D" >>,
    REVIEW |-> << "R", "E", "V", "I", "E", "W" >>,
    TESTING |-> << "T", "E", "S", "T", "I", "N", "G" >>,
    PERFORMANCE |-> << "P", "E", "R", "F", "O", "R", "M", "A", "N", "C", "E" >>,
    VALIDATION |-> << "V", "A", "L", "I", "D", "A", "T", "I", "O", "N" >>,
    COMPLETE |-> << "C", "O", "M", "P", "L", "E", "T", "E" >>,
    current_state |-> << "c", "u", "r", "r", "e", "n", "t", "_", "s", "t", "a", "t", "e" >>,
    current_feature |-> << "c", "u", "r", "r", "e", "n", "t", "_", "f", "e", "a", "t", "u", "r", "e" >>,
    state_history |-> << "s", "t", "a", "t", "e", "_", "h", "i", "s", "t", "o", "r", "y" >>,
    handover_log |-> << "h", "a", "n", "d", "o", "v", "e", "r", "_", "l", "o", "g" >>,
    agent_context |-> << "a", "g", "e", "n", "t", "_", "c", "o", "n", "t", "e", "x", "t" >>,
    pending_actions |-> << "p", "e", "n", "d", "i", "n", "g", "_", "a", "c", "t", "i", "o", "n", "s" >>,
    from_state |-> << "f", "r", "o", "m", "_", "s", "t", "a", "t", "e" >>,
    to_state |-> << "t", "o", "_", "s", "t", "a", "t", "e" >>,
    from_agent |-> << "f", "r", "o", "m", "_", "a", "g", "e", "n", "t" >>,
    to_agent |-> << "t", "o", "_", "a", "g", "e", "n", "t" >>,
    rejection_reason |-> << "r", "e", "j", "e", "c", "t", "i", "o", "n", "_", "r", "e", "a", "s", "o", "n" >>,
    last_active |-> << "l", "a", "s", "t", "_", "a", "c", "t", "i", "v", "e" >>,
    last_output |-> << "l", "a", "s", "t", "_", "o", "u", "t", "p", "u", "t" >>,
    work_products |-> << "w", "o", "r", "k", "_", "p", "r", "o", "d", "u", "c", "t", "s" >>,
    total_features |-> << "t", "o", "t", "a", "l", "_", "f", "e", "a", "t", "u", "r", "e", "s" >>,
    total_handovers |-> << "t", "o", "t", "a", "l", "_", "h", "a", "n", "d", "o", "v", "e", "r", "s" >>,
    rejected_handovers |-> << "r", "e", "j", "e", "c", "t", "e", "d", "_", "h", "a", "n", "d", "o", "v", "e", "r", "s" >>,
    average_cycle_time |-> << "a", "v", "e", "r", "a", "g", "e", "_", "c", "y", "c", "l", "e", "_", "t", "i", "m", "e" >>,
    state_cycle_times |-> << "s", "t", "a", "t", "e", "_", "c", "y", "c", "l", "e", "_", "t", "i", "m", "e", "s" >>,
    rework_patterns |-> << "r", "e", "w", "o", "r", "k", "_", "p", "a", "t", "t", "e", "r", "n", "s" >>,
    agent_utilization |-> << "a", "g", "e", "n", "t", "_", "u", "t", "i", "l", "i", "z", "a", "t", "i", "o", "n" >>,
    started_at |-> << "s", "t", "a", "r", "t", "e", "d", "_", "a", "t" >>,
    acceptance_criteria |-> << "a", "c", "c", "e", "p", "t", "a", "n", "c", "e", "_", "c", "r", "i", "t", "e", "r", "i", "a" >>,
    linked_issues |-> << "l", "i", "n", "k", "e", "d", "_", "i", "s", "s", "u", "e", "s" >>,
    created_at |-> << "c", "r", "e", "a", "t", "e", "d", "_", "a", "t" >>,
    affected_state |-> << "a", "f", "f", "e", "c", "t", "e", "d", "_", "s", "t", "a", "t", "e" >>,
    affected_agent |-> << "a", "f", "f", "e", "c", "t", "e", "d", "_", "a", "g", "e", "n", "t" >>,
    resolved_at |-> << "r", "e", "s", "o", "l", "v", "e", "d", "_", "a", "t" >>,
    due_by |-> << "d", "u", "e", "_", "b", "y" >>,
    completed_at |-> << "c", "o", "m", "p", "l", "e", "t", "e", "d", "_", "a", "t" >>,
    coordinator |-> << "c", "o", "o", "r", "d", "i", "n", "a", "t", "o", "r" >>,
    developer |-> << "d", "e", "v", "e", "l", "o", "p", "e", "r" >>,
    reviewer |-> << "r", "e", "v", "i", "e", "w", "e", "r" >>,
    qa_agent |-> << "q", "a", "_", "a", "g", "e", "n", "t" >>,
    qaAgent |-> << "q", "a", "A", "g", "e", "n", "t" >> ]
  @@ "Requirements Engineer" :> << "R", "e", "q", "u", "i", "r", "e", "m", "e", "n", "t", "s", " ", "E", "n", "g", "i", "n", "e", "e", "r" >>
  @@ "Tech Lead" :> << "T", "e", "c", "h", " ", "L", "e", "a", "d" >>
  @@ "DevOps Engineer" :> << "D", "e", "v", "O", "p", "s", " ", "E", "n", "g", "i", "n", "e", "e", "r" >>
  @@ "Tester / QA" :> << "T", "e", "s", "t", "e", "r", " ", "/", " ", "Q", "A" >>
  @@ "Performance Engineer" :> << "P", "e", "r", "f", "o", "r", "m", "a", "n", "c", "e", " ", "E", "n", "g", "i", "n", "e", "e", "r" >>
  @@ "Documentation Agent" :> << "D", "o", "c", "u", "m", "e", "n", "t", "a", "t", "i", "o", "n", " ", "A", "g", "e", "n", "t" >>
  @@ "Guest Agent" :> << "G", "u", "e", "s", "t", " ", "A", "g", "e", "n", "t" >>

UpperCase ==
  { "A", "B", "C", "D", "E", "F", "G", "H", "I", "J", "K", "L", "M", "N",
    "O", "P", "Q", "R", "S", "T", "U", "V", "W", "X", "Y", "Z" }

LowerCase ==
  { "a", "b", "c", "d", "e", "f", "g", "h", "i", "j", "k", "l", "m", "n",
    "o", "p", "q", "r", "s", "t", "u", "v", "w", "x", "y", "z" }

\* char.lower()
lower(char) ==
  CASE char = "A" -> "a" [] char = "B" -> "b" [] char = "C" -> "c"
    [] char = "D" -> "d" [] char = "E" -> "e" [] char = "F" -> "f"
    [] char = "G" -> "g" [] char = "H" -> "h" [] char = "I" -> "i"
    [] char = "J" -> "j" [] char = "K" -> "k" [] char = "L" -> "l"
    [] char = "M" -> "m" [] char = "N" -> "n" [] char = "O" -> "o"
    [] char = "P" -> "p" [] char = "Q" -> "q" [] char = "R" -> "r"
    [] char = "S" -> "s" [] char = "T" -> "t" [] char = "U" -> "u"
    [] char = "V" -> "v" [] char = "W" -> "w" [] char = "X" -> "x"
    [] char = "Y" -> "y" [] char = "Z" -> "z" [] OTHER -> char

\* key.isupper(): a cased character, and no lower-case one
isupper(key) ==
  /\ \E i \in DOMAIN KeyChars[key] : KeyChars[key][i] \in UpperCase
  /\ \A i \in DOMAIN KeyChars[key] : KeyChars[key][i] \notin LowerCase

\* The key spelled by a sequence of characters.
KeyOf(chars) == CHOOSE key \in DOMAIN KeyChars : KeyChars[key] = chars

RECURSIVE snake_chars(_, _)
\* to_snake_case from the i-th character on: '_' before an upper-case
\* character that is not the first, every character lower-cased.
snake_chars(chars, i) ==
  IF i > Len(chars) THEN <<>>
  ELSE (IF chars[i] \in UpperCase /\ i > 1 THEN <<"_">> ELSE <<>>)
         \o <<lower(chars[i])>> \o snake_chars(chars, i + 1)

\* _deserialize_state.to_snake_case
to_snake_case(camel_str) == KeyOf(snake_chars(KeyChars[camel_str], 1))

\* _deserialize_state.should_convert_key
should_convert_key_back(key, parent_key) ==
  IF parent_key \in { "stateCycleTimes", "agentUtilization" } THEN FALSE
  ELSE IF \E i \in DOMAIN KeyChars[key] : KeyChars[key][i] = " " THEN FALSE
  ELSE IF isupper(key) THEN FALSE
  ELSE \E i \in DOMAIN KeyChars[key] : KeyChars[key][i] \in UpperCase

\* Mutant: no key is converted back.
new_key_back_kept(key, parent_key) == key

\* The key that a key of a dict becomes in _deserialize_state.convert_keys.
new_key_back(key, parent_key) ==
  IF should_convert_key_back(key, parent_key) THEN to_snake_case(key) ELSE key

\* The key of obj that ends up under new_key: when two keys of obj become
\* the same key the later one in the dict's order overwrites the earlier.
\* A key that is already lower-case can only have come from an earlier
\* load, so it precedes the key a caller has inserted since.
key_source(obj, parent_key, new_key) ==
  LET sources == { k \in DOMAIN obj : new_key_back(k, parent_key) = new_key }
  IN  IF new_key \in sources /\ sources # { new_key }
        THEN CHOOSE k \in sources : k # new_key
        ELSE CHOOSE k \in sources : TRUE

\* _deserialize_state.convert_keys on one dict, its values left alone
convert_keys_back(obj, parent_key) ==
  [ new_key \in { new_key_back(k, parent_key) : k \in DOMAIN obj } |->
      obj[key_source(obj, parent_key, new_key)] ]

\* _deserialize_state.convert_keys on a list of dicts
convert_list_back(list, parent_key) ==
  [ i \in 1..Len(list) |-> convert_keys_back(list[i], parent_key) ]

\* The fields of each dataclass that have a default, with the default.
FeatureDefaults == [ acceptance_criteria |-> <<>>, linked_issues |-> <<>> ]

StateTransitionDefaults == [ context |-> None ]

HandoverRecordDefaults ==
  [ context |-> None, artifacts |-> <<>>, rejection_reason |-> NoMessage ]

PendingActionDefaults ==
  [ priority |-> "MEDIUM", status |-> "PENDING", due_by |-> <<>>,
    completed_at |-> <<>> ]

BlockerDefaults ==
  [ status |-> "OPEN", affected_state |-> None, affected_agent |-> None,
    resolved_at |-> <<>>, resolution |-> <<>> ]

ReworkPatternDefaults == [ reason |-> <<>> ]

DecisionRecordDefaults == [ context |-> <<>>, outcome |-> <<>> ]

WorkflowMetricsDefaults ==
  [ total_features |-> 0, total_handovers |-> 0, rejected_handovers |-> 0,
    average_cycle_time |-> 0, state_cycle_times |-> <<>>,
    rework_patterns |-> <<>>, agent_utilization |-> <<>> ]

\* The fields of each dataclass.
Fields ==
  [ Feature        |-> DOMAIN Feature(None, None, None, 0),
    StateTransition |-> DOMAIN NoTransition,
    HandoverRecord |-> DOMAIN NoHandover,
    AgentContext   |-> DOMAIN AgentContext,
    PendingAction  |->
      DOMAIN PendingAction(0, None, None, 0, None, None, <<>>, <<>>),
    Blocker        |->
      DOMAIN Blocker(0, None, None, 0, None, None, None, <<>>, <<>>),
    ReworkPattern  |-> DOMAIN ReworkPattern(None, None, 0, <<>>),
    DecisionRecord |-> DOMAIN DecisionRecord(0, 0, None, None, <<>>, <<>>) ]

\* cls(**d) raises no TypeError: d names only fields of the dataclass and
\* every field without a default.
Accepts(fields, defaults, d) ==
  /\ DOMAIN d \subseteq fields
  /\ fields \ DOMAIN defaults \subseteq DOMAIN d

AcceptsAll(fields, defaults, list) ==
  \A i \in DOMAIN list : Accepts(fields, defaults, list[i])

\* cls(**d), accepted
Construct(defaults, d) == d @@ defaults

ConstructAll(defaults, list) ==
  [ i \in DOMAIN list |-> Construct(defaults, list[i]) ]

\* d.get(key, default)
Get(d, key, default) == IF key \in DOMAIN d THEN d[key] ELSE default

\* A file whose content is no JSON document, a prefix of the text of a
\* document, and the JSON document [].
InvalidJson == [ not_json |-> "{ invalid json }" ]

Truncated(document) == [ truncated |-> document ]

ArrayDocument == [ json_array |-> <<>> ]

\* json.load raises JSONDecodeError
NotJson(content) == "not_json" \in DOMAIN content \/ "truncated" \in DOMAIN content

\* _deserialize_state.convert_keys on the values of a document whose keys
\* are converted (top): the keys of its records and of its maps, each with
\* the key it was found under as the parent key.
convert_agents(map, names, parent_key) ==
  [ name \in DOMAIN names |->
      convert_keys_back(names[name], key_source(map, parent_key, name)) ]

convert_metrics(map, m, parent_key) ==
  [ key \in DOMAIN m |->
      IF key \in { "state_cycle_times", "agent_utilization" }
        THEN convert_keys_back(m[key], key_source(map, parent_key, key))
      ELSE IF key = "rework_patterns"
        THEN convert_list_back(m[key], key_source(map, parent_key, key))
      ELSE m[key] ]

convert_values(data, top) ==
  [ key \in DOMAIN top |->
      IF key \in { "current_feature", "state_history", "handover_log",
                   "pending_actions", "blockers", "decisions" }
        THEN convert_list_back(top[key], key_source(data, "", key))
      ELSE IF key = "agent_context"
        THEN convert_agents(top[key],
               convert_keys_back(top[key], key_source(data, "", key)),
               key_source(data, "", key))
      ELSE IF key = "metrics"
        THEN convert_metrics(top[key],
               convert_keys_back(top[key], key_source(data, "", key)),
               key_source(data, "", key))
      ELSE top[key] ]

\* data = convert_keys(data) of _deserialize_state on a JSON object
convert_document(data) == convert_values(data, convert_keys_back(data, ""))

\* What _deserialize_state comes to: the exception it raises (None: none)
\* and the state it returns.
Deserialized(raised, s) == [ raised |-> raised, state |-> s ]

\* _deserialize_state on the converted document d: the dataclasses built,
\* WorkflowMetrics first, then the arguments of CoordinatorState in order.
build_state(d, metrics_data, patterns, feature, history, handovers, agents, actions, blockers, decisions) ==
  IF ~ AcceptsAll(Fields.ReworkPattern, ReworkPatternDefaults, patterns)
    THEN Deserialized("TypeError", <<>>)
  ELSE IF "current_state" \notin DOMAIN d
    THEN Deserialized("KeyError", <<>>)
  ELSE IF \/ ~ AcceptsAll(Fields.Feature, FeatureDefaults, feature)
          \/ ~ AcceptsAll(Fields.StateTransition, StateTransitionDefaults,
                          history)
          \/ ~ AcceptsAll(Fields.HandoverRecord, HandoverRecordDefaults,
                          handovers)
          \/ \E k \in DOMAIN agents :
               ~ Accepts(Fields.AgentContext, AgentContext, agents[k])
          \/ ~ AcceptsAll(Fields.PendingAction, PendingActionDefaults,
                          actions)
          \/ ~ AcceptsAll(Fields.Blocker, BlockerDefaults, blockers)
          \/ ~ AcceptsAll(Fields.DecisionRecord, DecisionRecordDefaults,
                          decisions)
    THEN Deserialized("TypeError", <<>>)
  ELSE Deserialized(None,
         [ current_state   |-> d.current_state,
           current_feature |-> ConstructAll(FeatureDefaults, feature),
           state_history   |-> ConstructAll(StateTransitionDefaults, history),
           handover_log    |-> ConstructAll(HandoverRecordDefaults, handovers),
           agent_context   |->
             [ k \in DOMAIN agents |-> Construct(AgentContext, agents[k]) ],
           pending_actions |-> ConstructAll(PendingActionDefaults, actions),
           blockers        |-> ConstructAll(BlockerDefaults, blockers),
           metrics         |->
             [ k \in DOMAIN WorkflowMetricsDefaults |->
                 IF k = "rework_patterns"
                   THEN ConstructAll(ReworkPatternDefaults, patterns)
                   ELSE Get(metrics_data, k, WorkflowMetricsDefaults[k]) ],
           decisions       |->
             ConstructAll(DecisionRecordDefaults, decisions) ])

\* _deserialize_state on the converted document d: what data.get hands to
\* the dataclasses; a current_feature that is None or empty is no feature.
deserialize_document(d, metrics_data) ==
  build_state(d, metrics_data,
              Get(metrics_data, "rework_patterns", <<>>),
              SelectSeq(Get(d, "current_feature", <<>>), LAMBDA f : f # <<>>),
              Get(d, "state_history", <<>>),
              Get(d, "handover_log", <<>>),
              Get(d, "agent_context", <<>>),
              Get(d, "pending_actions", <<>>),
              Get(d, "blockers", <<>>),
              Get(d, "decisions", <<>>))

deserialize_converted(d) == deserialize_document(d, Get(d, "metrics", <<>>))

\* _deserialize_state, after json.load has parsed the document; the JSON
\* document [] has no get.
deserialize_state(data) ==
  IF "json_array" \in DOMAIN data
    THEN Deserialized("AttributeError", <<>>)
    ELSE deserialize_converted(convert_document(data))

\* ------------------------------------------------------------------ handle
\* A handle h is [state, disk, uuid, writes, now, backup]: self._state, the
\* backing file, the ids issued so far, the durable writes of the call in
\* progress, the wall clock and the backup path.
NoFile == [ exists |-> FALSE, data |-> <<>> ]

\* _save_state: serialize under the lock into the temporary path and rename
\* it over the real path; one durable write.
save_state(h) ==
  [ h EXCEPT !.disk   = [ exists |-> TRUE, data |-> serialize_state(h.state) ],
             !.writes = @ + 1 ]

\* What _load_state comes to: the exception that leaves it (None: none) and
\* whether it has backed a corrupted file up.
LoadResult(raised, recovered) == [ raised |-> raised, recovered |-> recovered ]

\* _load_state, when json.load or _deserialize_state has raised: the except
\* clause renames the file to the backup path and returns the initial
\* state; an exception it does not name leaves __init__.  Of the backup
\* paths only the latest is kept.
load_failed(h, raised) ==
  IF raised \in { "JSONDecodeError", "KeyError", "ValueError" }
    THEN [ h |-> [ h EXCEPT !.backup = h.disk,
                            !.disk   = NoFile,
                            !.state  = create_initial_state ],
           result |-> LoadResult(None, TRUE) ]
    ELSE [ h |-> h, result |-> LoadResult(raised, FALSE) ]

\* _load_state, when json.load has parsed the file
load_parsed(h, loaded) ==
  IF loaded.raised # None
    THEN load_failed(h, loaded.raised)
    ELSE [ h |-> [ h EXCEPT !.state = loaded.state ],
           result |-> LoadResult(None, FALSE) ]

\* Mutant: a load that finds no file writes the initial state out.
load_state_saves(h) ==
  IF ~ h.disk.exists
    THEN [ h |-> save_state([ h EXCEPT !.state = create_initial_state ]),
           result |-> LoadResult(None, FALSE) ]
  ELSE IF NotJson(h.disk.data)
    THEN load_failed(h, "JSONDecodeError")
  ELSE load_parsed(h, deserialize_state(h.disk.data))

\* _load_state, called by __init__ of a fresh handle over the file of h
load_state(h) ==
  IF ~ h.disk.exists
    THEN [ h |-> [ h EXCEPT !.state = create_initial_state ],
           result |-> LoadResult(None, FALSE) ]
  ELSE IF NotJson(h.disk.data)
    THEN load_failed(h, "JSONDecodeError")
  ELSE load_parsed(h, deserialize_state(h.disk.data))

\* _save_state step by step, on the files fs = [disk, tmp]: the real path
\* and the temporary path.
\* Mutant: the document is written straight into the real path.
open_and_dump_in_place(fs, document) ==
  [ fs EXCEPT !.disk = [ exists |-> TRUE, data |-> Truncated(document) ] ]

\* open(temp_path, 'w') and json.dump under way: the temporary path holds a
\* prefix of the text of the document.
open_and_dump(fs, document) ==
  [ fs EXCEPT !.tmp = [ exists |-> TRUE, data |-> Truncated(document) ] ]

\* json.dump done and the file closed: the whole text is there.
close_file(fs) ==
  IF fs.tmp.exists /\ "truncated" \in DOMAIN fs.tmp.data
    THEN [ fs EXCEPT !.tmp.data = @.truncated ]
    ELSE fs

\* temp_path.replace(self._state_file_path): one atomic rename
replace_file(fs) ==
  IF fs.tmp.exists THEN [ disk |-> fs.tmp, tmp |-> NoFile ] ELSE fs

\* Mutant: the rename is done although the write has failed.
dump_failed_renamed(fs) ==
  IF fs.tmp.exists THEN [ disk |-> fs.tmp, tmp |-> NoFile ] ELSE fs

\* open(temp_path, 'w') or json.dump raises OSError: the with statement
\* closes the temporary file with what was written of it, and the rename is
\* not reached.
dump_failed(fs) == fs

\* Mutant: the lock is not released when the body has raised.
file_lock_exit_skipped(holder) == holder

\* _file_lock, the finally clause: fcntl.flock(LOCK_UN), whether the body
\* has returned or raised; nobody holds the lock then.
file_lock_exit(holder) == 0

\* Mutant: _load_state reads without the lock.
load_lock_free(holder, w) == [ free |-> TRUE, holder |-> holder ]

\* _load_state: `with self._file_lock()` around the read.  Whether worker w
\* can go on, and who holds the lock when it does.
load_lock(holder, w) == [ free |-> holder = 0, holder |-> w ]

\* list(WorkflowState).index(s)
index(s) == (CHOOSE i \in 1..Len(WorkflowState) : WorkflowState[i] = s) - 1

\* Mutant: a completed feature is not counted.
update_metrics_not_counted(s, transition) ==
  LET patterns  == s.metrics.rework_patterns
      matches   == { i \in 1..Len(patterns) :
                       /\ patterns[i].from_state = transition.from_state
                       /\ patterns[i].to_state = transition.to_state }
      first     == CHOOSE i \in matches : \A j \in matches : i <= j
      reworked  ==
        IF index(transition.to_state) < index(transition.from_state)
          THEN IF matches # {}
                 THEN [ patterns EXCEPT ![first].count = @ + 1 ]
                 ELSE Append(patterns,
                             ReworkPattern(transition.from_state,
                                           transition.to_state, 1,
                                           transition.reason))
          ELSE patterns
      features  ==
        s.metrics.total_features
  IN  [ s EXCEPT !.metrics.rework_patterns = reworked,
                 !.metrics.total_features  = features ]

\* Mutant: every backward transition appends a pattern of its own.
update_metrics_always_appends(s, transition) ==
  LET patterns  == s.metrics.rework_patterns
      matches   == { i \in 1..Len(patterns) :
                       /\ patterns[i].from_state = transition.from_state
                       /\ patterns[i].to_state = transition.to_state }
      first     == CHOOSE i \in matches : \A j \in matches : i <= j
      reworked  ==
        IF index(transition.to_state) < index(transition.from_state)
          THEN IF FALSE
                 THEN [ patterns EXCEPT ![first].count = @ + 1 ]
                 ELSE Append(patterns,
                             ReworkPattern(transition.from_state,
                                           transition.to_state, 1,
                                           transition.reason))
          ELSE patterns
      features  ==
        IF transition.to_state = "COMPLETE"
          THEN s.metrics.total_features + 1
          ELSE s.metrics.total_features
  IN  [ s EXCEPT !.metrics.rework_patterns = reworked,
                 !.metrics.total_features  = features ]

\* _update_metrics, on self._state
update_metrics(s, transition) ==
  LET patterns  == s.metrics.rework_patterns
      matches   == { i \in 1..Len(patterns) :
                       /\ patterns[i].from_state = transition.from_state
                       /\ patterns[i].to_state = transition.to_state }
      first     == CHOOSE i \in matches : \A j \in matches : i <= j
      reworked  ==
        IF index(transition.to_state) < index(transition.from_state)
          THEN IF matches # {}
                 THEN [ patterns EXCEPT ![first].count = @ + 1 ]
                 ELSE Append(patterns,
                             ReworkPattern(transition.from_state,
                                           transition.to_state, 1,
                                           transition.reason))
          ELSE patterns
      features  ==
        IF transition.to_state = "COMPLETE"
          THEN s.metrics.total_features + 1
          ELSE s.metrics.total_features
  IN  [ s EXCEPT !.metrics.rework_patterns = reworked,
                 !.metrics.total_features  = features ]

TransitionResult(success, error_message, transition) ==
  [ success |-> success, error_message |-> error_message,
    transition |-> transition ]

\* Mutant: the message names the expected phase as the current one.
transition_mismatch_swapped(h, from_state) ==
  [ h |-> h,
    result |-> TransitionResult(FALSE,
                 MismatchMessage(from_state, h.state.current_state),
                 NoTransition) ]

\* transition_state, the branch taken when the caller's from_state is not the
\* current state: a failure result, nothing touched.
transition_mismatch(h, from_state) ==
  [ h |-> h,
    result |-> TransitionResult(FALSE,
                 MismatchMessage(h.state.current_state, from_state),
                 NoTransition) ]

\* transition_state, the branch taken when (from_state, to_state) is no edge.
transition_invalid(h, from_state, to_state) ==
  [ h |-> h,
    result |-> TransitionResult(FALSE, InvalidMessage(from_state, to_state),
                                NoTransition) ]

\* Mutant: the transition is logged but the current state is not moved.
transition_accept_not_moved(h, from_state, to_state, reason, context) ==
  LET transition == StateTransition(from_state, to_state, reason, context)
      appended   ==
        [ h.state EXCEPT !.state_history = Append(@, transition) ]
  IN  [ h |-> save_state(
                [ h EXCEPT !.state = update_metrics(appended, transition) ]),
        result |-> TransitionResult(TRUE, NoMessage, transition) ]

\* Mutant: the accepted transition is not saved.
transition_accept_not_saved(h, from_state, to_state, reason, context) ==
  LET transition == StateTransition(from_state, to_state, reason, context)
      appended   ==
        [ h.state EXCEPT !.state_history = Append(@, transition),
                         !.current_state = to_state ]
  IN  [ h |-> [ h EXCEPT !.state = update_metrics(appended, transition) ],
        result |-> TransitionResult(TRUE, NoMessage, transition) ]

\* transition_state, the accepting branch: append, move, update the metrics,
\* save.
transition_accept(h, from_state, to_state, reason, context) ==
  LET transition == StateTransition(from_state, to_state, reason, context)
      appended   ==
        [ h.state EXCEPT !.state_history = Append(@, transition),
                         !.current_state = to_state ]
  IN  [ h |-> save_state(
                [ h EXCEPT !.state = update_metrics(appended, transition) ]),
        result |-> TransitionResult(TRUE, NoMessage, transition) ]

\* Mutant: the caller's from_state is not compared with the current state.
transition_state_unchecked(h, from_state, to_state, reason, context) ==
  IF ~ is_valid_transition(from_state, to_state)
    THEN transition_invalid(h, from_state, to_state)
    ELSE transition_accept(h, from_state, to_state, reason, context)

\* CoordinatorMemory.transition_state: the handle after the call and the
\* TransitionResult.
transition_state(h, from_state, to_state, reason, context) ==
  IF h.state.current_state # from_state
    THEN transition_mismatch(h, from_state)
  ELSE IF ~ is_valid_transition(from_state, to_state)
    THEN transition_invalid(h, from_state, to_state)
  ELSE transition_accept(h, from_state, to_state, reason, context)

\* datetime.now(timezone.utc).isoformat() at the clock reading t, as a str
UtcText ==
  << "2026-01-01T00:00:00+00:00", "2026-01-01T00:00:00.500000+00:00",
     "2026-01-01T00:00:01+00:00", "2026-01-01T00:00:01.500000+00:00" >>

utcnow(t) == UtcText[t + 1]

\* Mutant: the status given is dropped, the previous one kept.
update_agent_context_keep_status(h, agent_name, status, output, work_products, metadata) ==
  LET existing ==
        IF agent_name \in DOMAIN h.state.agent_context
          THEN h.state.agent_context[agent_name]
          ELSE AgentContext
      updated ==
        [ last_active   |-> utcnow(h.now),
          status        |-> existing.status,
          last_output   |-> IF output # <<>> THEN output
                                              ELSE existing.last_output,
          work_products |-> IF work_products # <<>>
                              THEN work_products[1]
                              ELSE existing.work_products,
          metadata      |-> IF metadata # <<>> THEN metadata[1]
                                                ELSE existing.metadata ]
  IN  save_state(
        [ h EXCEPT !.state.agent_context =
                     (agent_name :> updated) @@ h.state.agent_context ])

\* Mutant: the context of an agent already known is rebuilt from the
\* defaults.
update_agent_context_from_defaults(h, agent_name, status, output, work_products, metadata) ==
  LET existing == AgentContext
      updated ==
        [ last_active   |-> utcnow(h.now),
          status        |-> IF status # None THEN status ELSE existing.status,
          last_output   |-> IF output # <<>> THEN output
                                              ELSE existing.last_output,
          work_products |-> IF work_products # <<>>
                              THEN work_products[1]
                              ELSE existing.work_products,
          metadata      |-> IF metadata # <<>> THEN metadata[1]
                                                ELSE existing.metadata ]
  IN  save_state(
        [ h EXCEPT !.state.agent_context =
                     (agent_name :> updated) @@ h.state.agent_context ])

\* CoordinatorMemory.update_agent_context.  An argument not given is None:
\* None for the status, <<>> for the others, which hold << v >> when the
\* value v is given.  A list is a sequence, a dict a sequence of
\* << key, value >> pairs.
update_agent_context(h, agent_name, status, output, work_products, metadata) ==
  LET existing ==
        IF agent_name \in DOMAIN h.state.agent_context
          THEN h.state.agent_context[agent_name]
          ELSE AgentContext
      updated ==
        [ last_active   |-> utcnow(h.now),
          status        |-> IF status # None THEN status ELSE existing.status,
          last_output   |-> IF output # <<>> THEN output
                                              ELSE existing.last_output,
          work_products |-> IF work_products # <<>>
                              THEN work_products[1]
                              ELSE existing.work_products,
          metadata      |-> IF metadata # <<>> THEN metadata[1]
                                                ELSE existing.metadata ]
  IN  save_state(
        [ h EXCEPT !.state.agent_context =
                     (agent_name :> updated) @@ h.state.agent_context ])

\* Mutant: the lists of the feature that was active are kept in front of
\* the new ones.
set_current_feature_merged(h, name, branch, description, criteria, linked_issues) ==
  LET active  == IF h.state.current_feature # <<>>
                   THEN h.state.current_feature[1]
                   ELSE Feature(name, branch, description, h.now)
      feature ==
        [ Feature(name, branch, description, h.now) EXCEPT
            !.acceptance_criteria =
               active.acceptance_criteria
                 \o (IF criteria # <<>> THEN criteria[1] ELSE <<>>),
            !.linked_issues =
               active.linked_issues
                 \o (IF linked_issues # <<>> THEN linked_issues[1]
                                             ELSE <<>>) ]
  IN  save_state([ h EXCEPT !.state.current_feature = << feature >> ])

\* CoordinatorMemory.set_current_feature; criteria and linked_issues are
\* <<>> for None and << list >> for a list, and `criteria or []` is the list
\* given or the empty one.
set_current_feature(h, name, branch, description, criteria, linked_issues) ==
  LET feature ==
        [ Feature(name, branch, description, h.now) EXCEPT
            !.acceptance_criteria =
               IF criteria # <<>> THEN criteria[1] ELSE <<>>,
            !.linked_issues =
               IF linked_issues # <<>> THEN linked_issues[1] ELSE <<>> ]
  IN  save_state([ h EXCEPT !.state.current_feature = << feature >> ])

\* CoordinatorMemory.clear_current_feature
clear_current_feature(h) ==
  save_state([ h EXCEPT !.state.current_feature = <<>> ])

\* The position of the first record of a list with the id given, 0 if
\* there is none: the loop of resolve_blocker and complete_pending_action.
find_id(list, id) ==
  IF \E i \in DOMAIN list : list[i].id = id
    THEN CHOOSE i \in DOMAIN list :
           /\ list[i].id = id
           /\ \A j \in DOMAIN list : list[j].id = id => i <= j
    ELSE 0

\* CoordinatorMemory.add_blocker: the handle after the call and the Blocker.
add_blocker(h, description, impact, affected_state, affected_agent) ==
  LET blocker == Blocker(h.uuid + 1, description, impact, h.now, "OPEN",
                         affected_state, affected_agent, <<>>, <<>>)
  IN  [ h |-> save_state([ h EXCEPT !.uuid = @ + 1,
                                    !.state.blockers = Append(@, blocker) ]),
        result |-> blocker ]

\* Mutant: the resolved record is moved to the end of the list.
resolve_found_moved(h, i, resolution) ==
  LET resolved ==
        [ h.state.blockers[i] EXCEPT !.status      = "RESOLVED",
                                     !.resolved_at = << h.now >>,
                                     !.resolution  = resolution ]
      others == SelectSeq(h.state.blockers, LAMBDA b : b.id # resolved.id)
  IN  [ h |-> save_state([ h EXCEPT !.state.blockers =
                                      Append(others, resolved) ]),
        result |-> TRUE ]

\* resolve_blocker, the blocker found at position i: a Blocker with the
\* same fields, status RESOLVED, resolved_at now and the resolution given
\* takes its place, whatever its status was; saved.
resolve_found(h, i, resolution) ==
  LET resolved ==
        [ h.state.blockers[i] EXCEPT !.status      = "RESOLVED",
                                     !.resolved_at = << h.now >>,
                                     !.resolution  = resolution ]
  IN  [ h |-> save_state([ h EXCEPT !.state.blockers[i] = resolved ]),
        result |-> TRUE ]

\* CoordinatorMemory.resolve_blocker: the handle after the call and the
\* bool returned.
resolve_blocker(h, blocker_id, resolution) ==
  IF find_id(h.state.blockers, blocker_id) = 0
    THEN [ h |-> h, result |-> FALSE ]
    ELSE resolve_found(h, find_id(h.state.blockers, blocker_id), resolution)

\* CoordinatorMemory.add_pending_action, without a due date
add_pending_action(h, action, owner, priority) ==
  LET pending_action == PendingAction(h.uuid + 1, action, owner, h.now,
                                      priority, "PENDING", <<>>, <<>>)
  IN  [ h |-> save_state(
                [ h EXCEPT !.uuid = @ + 1,
                           !.state.pending_actions =
                             Append(@, pending_action) ]),
        result |-> pending_action ]

\* complete_pending_action, the action found at position i: a
\* PendingAction with the same fields, status COMPLETE and completed_at
\* now takes its place; saved.
complete_found(h, i) ==
  LET completed ==
        [ h.state.pending_actions[i] EXCEPT !.status       = "COMPLETE",
                                            !.completed_at = << h.now >> ]
  IN  [ h |-> save_state([ h EXCEPT !.state.pending_actions[i] = completed ]),
        result |-> TRUE ]

\* CoordinatorMemory.complete_pending_action: the handle after the call and
\* the bool returned.  The outcome given is not used.
complete_pending_action(h, action_id, outcome) ==
  IF find_id(h.state.pending_actions, action_id) = 0
    THEN [ h |-> h, result |-> FALSE ]
    ELSE complete_found(h, find_id(h.state.pending_actions, action_id))

\* Mutant: the new record takes the place of the list.
append_decision_alone(h, decision, rationale, impact, context) ==
  LET decision_record == DecisionRecord(h.uuid + 1, h.now, decision,
                                        rationale, context, impact)
  IN  [ h |-> [ h EXCEPT !.uuid = @ + 1,
                         !.state.decisions = << decision_record >> ],
        result |-> decision_record ]

\* record_decision up to the append: the record is in self._state, not
\* saved yet.
append_decision(h, decision, rationale, impact, context) ==
  LET decision_record == DecisionRecord(h.uuid + 1, h.now, decision,
                                        rationale, context, impact)
  IN  [ h |-> [ h EXCEPT !.uuid = @ + 1,
                         !.state.decisions = Append(@, decision_record) ],
        result |-> decision_record ]

\* CoordinatorMemory.record_decision: the handle after the call and the
\* DecisionRecord.
record_decision(h, decision, rationale, impact, context) ==
  LET r == append_decision(h, decision, rationale, impact, context)
  IN  [ h |-> save_state(r.h), result |-> r.result ]

\* -------------------------------------------------------------- timestamps
\* A reading t of the wall clock is the instant t half seconds after
\* 2026-01-01T00:00:00 UTC.  A record keeps the text isoformat() gives for
\* the reading in UTC; the model keeps the reading and renders the text
\* where the code compares it.
\* datetime.isoformat() of the instant t in the zone utcoffset hours east of
\* UTC, one character per element: the fraction is left out when the
\* microsecond is 0.
Digits == << "0", "1", "2", "3", "4", "5", "6", "7", "8", "9" >>

isoformat(t, utcoffset) ==
  << "2", "0", "2", "6", "-", "0", "1", "-", "0", "1", "T" >>
  \o << "0", Digits[utcoffset + 1], ":", "0", "0", ":" >>
  \o << Digits[((t \div 2) \div 10) + 1], Digits[((t \div 2) % 10) + 1] >>
  \o (IF t % 2 = 1 THEN << ".", "5", "0", "0", "0", "0", "0" >> ELSE << >>)
  \o << "+", "0", Digits[utcoffset + 1], ":", "0", "0" >>

\* ord() of the characters of a timestamp
ord(char) ==
  CASE char = "+" -> 43
    [] char = "-" -> 45
    [] char = "." -> 46
    [] char = ":" -> 58
    [] char = "T" -> 84
    [] OTHER      -> 47 + CHOOSE i \in 1..10 : Digits[i] = char

\* The characters of a str as their codes.
ords(text) == [ i \in 1..Len(text) |-> ord(text[i]) ]

\* a < b on sequences of integers, the order of str and of tuple: at the
\* first position where they differ, or a is a proper prefix of b.
key_lt(a, b) ==
  \/ /\ Len(a) < Len(b)
     /\ \A i \in 1..Len(a) : a[i] = b[i]
  \/ \E i \in 1..Len(a) :
       /\ i <= Len(b)
       /\ \A j \in 1..(i - 1) : a[j] = b[j]
       /\ a[i] < b[i]

\* a < b on str
str_lt(a, b) == key_lt(ords(a), ords(b))

\* a >= b on str
str_ge(a, b) == ~ str_lt(a, b)

\* sorted(list, key=..., reverse=...), keys[i] the key of list[i]: the
\* record at position i goes after the records whose key comes first and
\* after the earlier ones whose key is equal (the sort is stable, also in
\* reverse).
sorted(list, keys, reverse) ==
  LET first(j, i) == IF reverse THEN key_lt(keys[i], keys[j])
                                ELSE key_lt(keys[j], keys[i])
      place(i) ==
        1 + Cardinality({ j \in 1..Len(list) :
                            \/ first(j, i)
                            \/ /\ ~ first(i, j)
                               /\ j < i })
  IN  [ p \in 1..Len(list) |->
          list[CHOOSE i \in 1..Len(list) : place(i) = p] ]

\* priority_order.get(b.impact, 99)
priority_order(impact) ==
  CASE impact = "CRITICAL" -> 0
    [] impact = "HIGH"     -> 1
    [] impact = "MEDIUM"   -> 2
    [] impact = "LOW"      -> 3
    [] OTHER               -> 99

\* Mutant: the sort key is the creation time alone.
blocker_key_by_time(b) == ords(isoformat(b.created_at, 0))

\* key=lambda b: (priority_order.get(b.impact, 99), b.created_at)
blocker_key(b) ==
  << priority_order(b.impact) >> \o ords(isoformat(b.created_at, 0))

\* The keys of the records of a list of blockers.
blocker_keys(list) == [ i \in 1..Len(list) |-> blocker_key(list[i]) ]

\* CoordinatorMemory.get_active_blockers: the list returned
get_active_blockers(h) ==
  LET active == SelectSeq(h.state.blockers,
                          LAMBDA b : b.status \in { "OPEN", "IN_PROGRESS" })
  IN  sorted(active, blocker_keys(active), FALSE)

\* d.timestamp >= since_iso; since is [t, utcoffset]: the instant and the
\* zone of the datetime the caller passes.
since_filter(d, since) ==
  str_ge(isoformat(d.timestamp, 0), isoformat(since.t, since.utcoffset))

\* key=lambda d: d.timestamp
decision_keys(list) ==
  [ i \in 1..Len(list) |-> ords(isoformat(list[i].timestamp, 0)) ]

\* get_decisions after the filter: sorted(..., reverse=True)
sorted_decisions(decisions) ==
  sorted(decisions, decision_keys(decisions), TRUE)

\* CoordinatorMemory.get_decisions: the list returned; since is <<>> for
\* None and << [t, utcoffset] >> for a datetime.
get_decisions(h, since) ==
  sorted_decisions(IF since # <<>>
                     THEN SelectSeq(h.state.decisions,
                                    LAMBDA d : since_filter(d, since[1]))
                     ELSE h.state.decisions)

HandoverResult(success, error_message, handover) ==
  [ success |-> success, error_message |-> error_message,
    handover |-> handover ]

\* Mutant: the mismatch is counted as a rejected handover and saved.
handover_mismatch_counted(h, from_state) ==
  [ h |-> save_state(
            [ h EXCEPT !.state.metrics.rejected_handovers = @ + 1,
                       !.state.metrics.total_handovers = @ + 1 ]),
    result |-> HandoverResult(FALSE,
                 MismatchMessage(h.state.current_state, from_state),
                 NoHandover) ]

\* add_handover, the branch taken when the caller's from_state is not the
\* current state: a failure result without a record, nothing touched.
handover_mismatch(h, from_state) ==
  [ h |-> h,
    result |-> HandoverResult(FALSE,
                 MismatchMessage(h.state.current_state, from_state),
                 NoHandover) ]

\* Mutant: the rejection is not counted in total_handovers.
handover_reject_not_totalled(h, from_agent, to_agent, from_state, to_state, reason) ==
  LET id       == h.uuid + 1
      handover == HandoverRecord(id, from_agent, to_agent, from_state,
                                 to_state, reason, "REJECTED",
                                 InvalidMessage(from_state, to_state))
  IN  [ h |-> save_state(
                [ h EXCEPT
                    !.uuid = id,
                    !.state.handover_log = Append(@, handover),
                    !.state.metrics.rejected_handovers = @ + 1 ]),
        result |-> HandoverResult(FALSE, handover.rejection_reason,
                                  handover) ]

\* Mutant: the rejection is logged and counted, and not saved.
handover_reject_unsaved(h, from_agent, to_agent, from_state, to_state, reason) ==
  LET id       == h.uuid + 1
      handover == HandoverRecord(id, from_agent, to_agent, from_state,
                                 to_state, reason, "REJECTED",
                                 InvalidMessage(from_state, to_state))
  IN  [ h |-> [ h EXCEPT
                  !.uuid = id,
                  !.state.handover_log = Append(@, handover),
                  !.state.metrics.rejected_handovers = @ + 1,
                  !.state.metrics.total_handovers = @ + 1 ],
        result |-> HandoverResult(FALSE, handover.rejection_reason,
                                  handover) ]

\* add_handover, the branch taken when (from_state, to_state) is no edge: the
\* rejection is logged, counted and saved.
handover_reject(h, from_agent, to_agent, from_state, to_state, reason) ==
  LET id       == h.uuid + 1
      handover == HandoverRecord(id, from_agent, to_agent, from_state,
                                 to_state, reason, "REJECTED",
                                 InvalidMessage(from_state, to_state))
  IN  [ h |-> save_state(
                [ h EXCEPT
                    !.uuid = id,
                    !.state.handover_log = Append(@, handover),
                    !.state.metrics.rejected_handovers = @ + 1,
                    !.state.metrics.total_handovers = @ + 1 ]),
        result |-> HandoverResult(FALSE, handover.rejection_reason,
                                  handover) ]

\* Mutant: the approving branch leaves the final save out.
handover_approve_unsaved(h, from_agent, to_agent, from_state, to_state, reason) ==
  LET id       == h.uuid + 1
      handover == HandoverRecord(id, from_agent, to_agent, from_state,
                                 to_state, reason, "APPROVED", NoMessage)
      logged   == [ h EXCEPT !.uuid = id,
                             !.state.handover_log = Append(@, handover) ]
      moved    == transition_state(logged, from_state, to_state,
                                   HandoverReason(from_agent, to_agent), None)
      handed   == update_agent_context(moved.h, from_agent, "IDLE",
                                       HandedOverOutput(to_agent),
                                       <<>>, <<>>)
      received == update_agent_context(handed, to_agent, "WORKING",
                                       ReceivedOutput(from_agent),
                                       <<>>, <<>>)
  IN  IF ~ moved.result.success
        THEN [ h |-> moved.h,
               result |-> HandoverResult(FALSE, moved.result.error_message,
                                         handover) ]
        ELSE [ h |-> [ received EXCEPT
                        !.state.metrics.total_handovers = @ + 1 ],
               result |-> HandoverResult(TRUE, NoMessage, handover) ]

\* add_handover, the approving branch: log the record, run the nested
\* transition_state, update both agents' contexts, count, save.
handover_approve(h, from_agent, to_agent, from_state, to_state, reason) ==
  LET id       == h.uuid + 1
      handover == HandoverRecord(id, from_agent, to_agent, from_state,
                                 to_state, reason, "APPROVED", NoMessage)
      logged   == [ h EXCEPT !.uuid = id,
                             !.state.handover_log = Append(@, handover) ]
      moved    == transition_state(logged, from_state, to_state,
                                   HandoverReason(from_agent, to_agent), None)
      handed   == update_agent_context(moved.h, from_agent, "IDLE",
                                       HandedOverOutput(to_agent),
                                       <<>>, <<>>)
      received == update_agent_context(handed, to_agent, "WORKING",
                                       ReceivedOutput(from_agent),
                                       <<>>, <<>>)
  IN  IF ~ moved.result.success
        THEN [ h |-> moved.h,
               result |-> HandoverResult(FALSE, moved.result.error_message,
                                         handover) ]
        ELSE [ h |-> save_state(
                       [ received EXCEPT
                           !.state.metrics.total_handovers = @ + 1 ]),
               result |-> HandoverResult(TRUE, NoMessage, handover) ]

\* CoordinatorMemory.add_handover: the handle after the call and the
\* HandoverResult.
add_handover(h, from_agent, to_agent, from_state, to_state, reason) ==
  IF h.state.current_state # from_state
    THEN handover_mismatch(h, from_state)
  ELSE IF ~ is_valid_transition(from_state, to_state)
    THEN handover_reject(h, from_agent, to_agent, from_state, to_state,
                         reason)
  ELSE handover_approve(h, from_agent, to_agent, from_state, to_state,
                        reason)

\* ------------------------------------------------------------------ inputs
\* The phases a caller passes.
PhaseInputs == { "INIT", "REQUIREMENTS", "ARCHITECTURE" }

\* The agents of a handover: a roster agent or an agent the roster does not
\* know hands over to that unknown agent.
FromAgentInputs == { "Developer", "Guest Agent" }

ToAgentInputs == { "Guest Agent" }

Reasons == { <<"reason">> }

\* ------------------------------------------------------------------- calls
\* Every public operation is a blocking call: the caller issues it, gets its
\* result (last) and proceeds before issuing the next one.
NoCall == [ op |-> None, args |-> <<>>, result |-> <<>>, writes |-> 0 ]

\* The handle a public call starts from: no durable write yet.
Handle == [ state |-> state, disk |-> disk, uuid |-> uuid, writes |-> 0, now |-> now, backup |-> backup ]

\* The threads or processes that call concurrently.
Workers == 1..NWorkers

Returned(h, op, args, result) ==
  /\ state' = h.state
  /\ disk'  = h.disk
  /\ uuid'  = h.uuid
  /\ last'  = [ op |-> op, args |-> args, result |-> result,
                writes |-> h.writes ]
  /\ prev'  = state
  /\ backup' = h.backup
  /\ UNCHANGED <<now, workers>>

WithinBounds(h) ==
  /\ Len(h.state.state_history) <= MaxHistory
  /\ Len(h.state.handover_log) <= MaxHandovers

Init ==
  /\ state = create_initial_state
  /\ disk  = NoFile
  /\ uuid  = 0
  /\ last  = NoCall
  /\ prev  = create_initial_state
  /\ now   = 0
  /\ backup = NoFile
  /\ mem   = [ w \in Workers |-> create_initial_state ]
  /\ pc    = [ w \in Workers |-> "start" ]
  /\ lock  = 0
  /\ tmp   = NoFile
  /\ snapshots = {}
  /\ call  = [ w \in Workers |-> NoCall ]

TransitionState ==
  /\ last = NoCall
  /\ \E from_state \in PhaseInputs, to_state \in PhaseInputs,
        reason \in Reasons :
       LET r == transition_state(Handle, from_state, to_state, reason, None)
       IN  /\ WithinBounds(r.h)
           /\ Returned(r.h, "transition_state",
                       [ from_state |-> from_state, to_state |-> to_state,
                         reason |-> reason ],
                       r.result)

AddHandover ==
  /\ last = NoCall
  /\ \E from_agent \in FromAgentInputs, to_agent \in ToAgentInputs,
        from_state \in PhaseInputs, to_state \in PhaseInputs,
        reason \in Reasons :
       LET r == add_handover(Handle, from_agent, to_agent, from_state,
                             to_state, reason)
       IN  /\ WithinBounds(r.h)
           /\ Returned(r.h, "add_handover",
                       [ from_agent |-> from_agent, to_agent |-> to_agent,
                         from_state |-> from_state, to_state |-> to_state,
                         reason |-> reason ],
                       r.result)

\* A direct context update: an agent reports itself blocked.
UpdateAgentContext ==
  /\ last = NoCall
  /\ \E agent_name \in { "Developer" }, status \in { "BLOCKED" },
        output \in { <<>> } :
       /\ Returned(update_agent_context(Handle, agent_name, status, output,
                                        <<>>, <<>>),
                   "update_agent_context",
                   [ agent_name |-> agent_name, status |-> status,
                     output |-> output ],
                   <<>>)

\* The caller takes the result and goes on.
Proceed ==
  /\ last # NoCall
  /\ last' = NoCall
  /\ prev' = state
  /\ UNCHANGED <<state, disk, uuid, now, backup, workers>>

Next ==
  \/ TransitionState
  \/ AddHandover
  \/ UpdateAgentContext
  \/ Proceed

Spec == Init /\ [][Next]_vars

\* ------------------------------------------------------ the policy on its own
\* StateTransitions is a class of pure class methods; any caller may query it.
IsValidTransition ==
  /\ last = NoCall
  /\ \E from_state \in States, to_state \in States :
       Returned(Handle, "is_valid_transition",
                [ from_state |-> from_state, to_state |-> to_state ],
                is_valid_transition(from_state, to_state))

GetValidTargets ==
  /\ last = NoCall
  /\ \E from_state \in States :
       Returned(Handle, "get_valid_targets",
                [ from_state |-> from_state ],
                get_valid_targets(from_state))

NextPolicy ==
  \/ IsValidTransition
  \/ GetValidTargets
  \/ Proceed

SpecPolicy == Init /\ [][NextPolicy]_vars

\* ------------------------------------------------- a whole workflow, to the end
\* A caller drives the workflow over all ten phases; handovers are offered
\* where the workflow ends, out of VALIDATION and out of COMPLETE.
LongHandoverFrom == { "VALIDATION", "COMPLETE" }

LongHandoverTo == { "COMPLETE", "INIT" }

WithinLong(h) ==
  /\ Len(h.state.state_history) <= MaxLongHistory
  /\ Len(h.state.handover_log) <= MaxHandovers

LongTransitionState ==
  /\ last = NoCall
  /\ \E from_state \in States, to_state \in States, reason \in Reasons :
       LET r == transition_state(Handle, from_state, to_state, reason, None)
       IN  /\ WithinLong(r.h)
           /\ Returned(r.h, "transition_state",
                       [ from_state |-> from_state, to_state |-> to_state,
                         reason |-> reason ],
                       r.result)

LongAddHandover ==
  /\ last = NoCall
  /\ \E from_agent \in { "Developer" }, to_agent \in ToAgentInputs,
        from_state \in LongHandoverFrom, to_state \in LongHandoverTo,
        reason \in Reasons :
       LET r == add_handover(Handle, from_agent, to_agent, from_state,
                             to_state, reason)
       IN  /\ WithinLong(r.h)
           /\ Returned(r.h, "add_handover",
                       [ from_agent |-> from_agent, to_agent |-> to_agent,
                         from_state |-> from_state, to_state |-> to_state,
                         reason |-> reason ],
                       r.result)

NextLong ==
  \/ LongTransitionState
  \/ LongAddHandover
  \/ Proceed

SpecLong == Init /\ [][NextLong]_vars

\* ------------------------------------------------------ the store on its own
\* A short workflow with a feature, fresh handles loaded over its file, and
\* a file that something else has left unreadable.
MaxStoreHistory == 2
MaxStoreHandovers == 1
MaxIds == 1

WithinStore(h) ==
  /\ Len(h.state.state_history) <= MaxStoreHistory
  /\ Len(h.state.handover_log) <= MaxStoreHandovers
  /\ h.uuid <= MaxIds

\* A document without currentState, and one whose transition record has a
\* field that StateTransition does not have.
MissingKeyDocument == [ stateHistory |-> <<>> ]

UnexpectedFieldDocument ==
  [ currentState |-> "REQUIREMENTS",
    stateHistory |->
      << [ fromState |-> "INIT", toState |-> "REQUIREMENTS",
           reason |-> <<"reason">>, approved |-> TRUE, context |-> None,
           bogus |-> 1 ] >> ]

UnreadableContents ==
  { InvalidJson, ArrayDocument, MissingKeyDocument, UnexpectedFieldDocument }

StoreTransitionState ==
  /\ last = NoCall
  /\ \E from_state \in PhaseInputs, to_state \in PhaseInputs,
        reason \in Reasons :
       LET r == transition_state(Handle, from_state, to_state, reason, None)
       IN  /\ WithinStore(r.h)
           /\ Returned(r.h, "transition_state",
                       [ from_state |-> from_state, to_state |-> to_state,
                         reason |-> reason ],
                       r.result)

StoreAddHandover ==
  /\ last = NoCall
  /\ \E from_agent \in { "Developer" }, to_agent \in ToAgentInputs,
        from_state \in PhaseInputs, to_state \in PhaseInputs,
        reason \in Reasons :
       LET r == add_handover(Handle, from_agent, to_agent, from_state,
                             to_state, reason)
       IN  /\ WithinStore(r.h)
           /\ Returned(r.h, "add_handover",
                       [ from_agent |-> from_agent, to_agent |-> to_agent,
                         from_state |-> from_state, to_state |-> to_state,
                         reason |-> reason ],
                       r.result)

SetCurrentFeature ==
  /\ last = NoCall
  /\ \E name \in { "Test Feature" }, branch \in { "feature/test" },
        description \in { "Test" } :
       Returned(set_current_feature(Handle, name, branch, description,
                                    <<>>, <<>>),
                "set_current_feature",
                [ name |-> name, branch |-> branch,
                  description |-> description ],
                <<>>)

ClearCurrentFeature ==
  /\ last = NoCall
  /\ Returned(clear_current_feature(Handle), "clear_current_feature",
              <<>>, <<>>)

\* CoordinatorMemory(path): a fresh handle takes the place of the one
\* modelled, unless its __init__ raises.
Load ==
  /\ last = NoCall
  /\ LET r == load_state(Handle)
     IN  Returned(r.h, "load_state", [ file |-> disk ], r.result)

\* Something other than a handle leaves the file unreadable.
CorruptFile ==
  /\ last = NoCall
  /\ \E content \in UnreadableContents :
       disk' = [ exists |-> TRUE, data |-> content ]
  /\ UNCHANGED <<state, uuid, last, prev, now, backup, workers>>

NextStore ==
  \/ StoreTransitionState
  \/ StoreAddHandover
  \/ SetCurrentFeature
  \/ ClearCurrentFeature
  \/ Load
  \/ CorruptFile
  \/ Proceed

SpecStore == Init /\ [][NextStore]_vars

\* ------------------------------------------- blockers and pending actions
MaxBlockers == 2
MaxActions == 1

WithinItems(h) ==
  /\ Len(h.state.blockers) <= MaxBlockers
  /\ Len(h.state.pending_actions) <= MaxActions

\* The ids a caller passes: ids that were issued, to a blocker or to an
\* action, and 0, which never is.
ItemIds == 0..(MaxBlockers + MaxActions)

Resolutions == { <<"Resolution">>, <<"Other resolution">> }

AddBlocker ==
  /\ last = NoCall
  /\ \E description \in { "blocked" }, impact \in { "HIGH" } :
       LET r == add_blocker(Handle, description, impact, None, None)
       IN  /\ WithinItems(r.h)
           /\ Returned(r.h, "add_blocker",
                       [ description |-> description, impact |-> impact ],
                       r.result)

ResolveBlocker ==
  /\ last = NoCall
  /\ \E blocker_id \in ItemIds, resolution \in Resolutions :
       LET r == resolve_blocker(Handle, blocker_id, resolution)
       IN  Returned(r.h, "resolve_blocker",
                    [ blocker_id |-> blocker_id, resolution |-> resolution ],
                    r.result)

AddPendingAction ==
  /\ last = NoCall
  /\ \E action \in { "act" }, owner \in { "Developer" },
        priority \in { "MEDIUM" } :
       LET r == add_pending_action(Handle, action, owner, priority)
       IN  /\ WithinItems(r.h)
           /\ Returned(r.h, "add_pending_action",
                       [ action |-> action, owner |-> owner,
                         priority |-> priority ],
                       r.result)

CompletePendingAction ==
  /\ last = NoCall
  /\ \E action_id \in ItemIds, outcome \in { <<>>, <<"done">> } :
       LET r == complete_pending_action(Handle, action_id, outcome)
       IN  Returned(r.h, "complete_pending_action",
                    [ action_id |-> action_id, outcome |-> outcome ],
                    r.result)

NextItems ==
  \/ AddBlocker
  \/ ResolveBlocker
  \/ AddPendingAction
  \/ CompletePendingAction
  \/ Proceed

SpecItems == Init /\ [][NextItems]_vars

\* ------------------------------------------------------ the blocker listing
\* Blockers of several priorities are added and resolved while the clock
\* moves on, and the active ones are listed.
MaxListed == 2
MaxClock == 1

Impacts == { "CRITICAL", "HIGH", "MEDIUM", "LOW" }

\* The wall clock moves on between two calls.
Tick ==
  /\ last = NoCall
  /\ now < MaxClock
  /\ now' = now + 1
  /\ UNCHANGED <<state, disk, uuid, last, prev, backup, workers>>

AddRankedBlocker ==
  /\ last = NoCall
  /\ \E description \in { "blocked" }, impact \in Impacts :
       LET r == add_blocker(Handle, description, impact, None, None)
       IN  /\ Len(r.h.state.blockers) <= MaxListed
           /\ Returned(r.h, "add_blocker",
                       [ description |-> description, impact |-> impact ],
                       r.result)

ResolveRankedBlocker ==
  /\ last = NoCall
  /\ \E blocker_id \in 1..MaxListed, resolution \in { <<"Resolution">> } :
       LET r == resolve_blocker(Handle, blocker_id, resolution)
       IN  Returned(r.h, "resolve_blocker",
                    [ blocker_id |-> blocker_id, resolution |-> resolution ],
                    r.result)

GetActiveBlockers ==
  /\ last = NoCall
  /\ Returned(Handle, "get_active_blockers", <<>>,
              get_active_blockers(Handle))

NextBlockers ==
  \/ AddRankedBlocker
  \/ ResolveRankedBlocker
  \/ GetActiveBlockers
  \/ Tick
  \/ Proceed

SpecBlockers == Init /\ [][NextBlockers]_vars

\* ------------------------------------------------------- the decision log
\* Decisions are recorded while the clock moves on, and queried with and
\* without a bound.
MaxDecisions == 3

\* The zones of the datetime a caller passes as since: UTC and one hour
\* east of it.
UtcOffsets == { 0, 1 }

SinceInputs ==
  { << >> } \cup { << [ t |-> t, utcoffset |-> utcoffset ] >> :
                     t \in 0..MaxClock, utcoffset \in UtcOffsets }

RecordDecision ==
  /\ last = NoCall
  /\ \E decision \in { "Decision 1", "Decision 2" }, rationale \in { "Rationale" } :
       LET r == record_decision(Handle, decision, rationale, <<>>, <<>>)
       IN  /\ Len(r.h.state.decisions) <= MaxDecisions
           /\ Returned(r.h, "record_decision",
                       [ decision |-> decision, rationale |-> rationale ],
                       r.result)

GetDecisions ==
  /\ last = NoCall
  /\ \E since \in SinceInputs :
       Returned(Handle, "get_decisions", [ since |-> since ],
                get_decisions(Handle, since))

NextDecisions ==
  \/ RecordDecision
  \/ GetDecisions
  \/ Tick
  \/ Proceed

SpecDecisions == Init /\ [][NextDecisions]_vars

\* ------------------------------------------------------- the agent contexts
\* Contexts are updated field by field, for an agent of the roster and for
\* one the roster does not know, while the clock moves on.
ContextAgents == { "Developer", "Guest Agent" }

StatusInputs == { None, "WORKING" }

OutputInputs == { <<>>, <<"Updated work">> }

WorkProductInputs == { <<>>, << <<>> >>, << <<"src/feature.py">> >> }

MetadataInputs == { <<>>, << << <<"ticket", "T-1">> >> >> }

UpdateContext ==
  /\ last = NoCall
  /\ \E agent_name \in ContextAgents, status \in StatusInputs,
        output \in OutputInputs, work_products \in WorkProductInputs,
        metadata \in MetadataInputs :
       Returned(update_agent_context(Handle, agent_name, status, output,
                                     work_products, metadata),
                "update_agent_context",
                [ agent_name |-> agent_name, status |-> status,
                  output |-> output, work_products |-> work_products,
                  metadata |-> metadata ],
                <<>>)

NextContexts ==
  \/ UpdateContext
  \/ Tick
  \/ Proceed

SpecContexts == Init /\ [][NextContexts]_vars

\* ------------------------------------------------------- the current feature
\* A feature is set, replaced and cleared while the workflow runs forward
\* to COMPLETE and the other operations are called.
MaxFeatureIds == 2

\* The phase after s in the delivery order; COMPLETE has none.
Forward(s) ==
  IF s = "COMPLETE" THEN {} ELSE { WorkflowState[index(s) + 2] }

\* The handovers, blockers, pending actions and decisions there are ids
\* for.
FeatureRoom(h) == h.uuid <= MaxFeatureIds

FeatureInputs ==
  { [ name |-> "Test", branch |-> "feature/test",
      description |-> "Test feature", criteria |-> <<>>,
      linked_issues |-> <<>> ],
    [ name |-> "Add user authentication", branch |-> "feature/auth",
      description |-> "Implement OAuth2 authentication",
      criteria |-> << <<"Users can log in">> >>,
      linked_issues |-> << <<"issues/123">> >> ] }

\* The caller moves the workflow on from the phase it is in, or back to
\* INIT, which no phase allows.
FeatureTransitionState ==
  /\ last = NoCall
  /\ \E from_state \in { state.current_state },
        to_state \in Forward(state.current_state) \cup { "INIT" },
        reason \in Reasons :
       LET r == transition_state(Handle, from_state, to_state, reason, None)
       IN  /\ FeatureRoom(r.h)
           /\ Returned(r.h, "transition_state",
                       [ from_state |-> from_state, to_state |-> to_state,
                         reason |-> reason ],
                       r.result)

FeatureAddHandover ==
  /\ last = NoCall
  /\ \E from_agent \in { "Developer" }, to_agent \in ToAgentInputs,
        from_state \in LongHandoverFrom, to_state \in LongHandoverTo,
        reason \in Reasons :
       LET r == add_handover(Handle, from_agent, to_agent, from_state,
                             to_state, reason)
       IN  /\ FeatureRoom(r.h)
           /\ Returned(r.h, "add_handover",
                       [ from_agent |-> from_agent, to_agent |-> to_agent,
                         from_state |-> from_state, to_state |-> to_state,
                         reason |-> reason ],
                       r.result)

SetFeature ==
  /\ last = NoCall
  /\ \E f \in FeatureInputs :
       Returned(set_current_feature(Handle, f.name, f.branch, f.description,
                                    f.criteria, f.linked_issues),
                "set_current_feature", f, <<>>)

FeatureAddBlocker ==
  /\ last = NoCall
  /\ LET r == add_blocker(Handle, "blocked", "HIGH", None, None)
     IN  /\ FeatureRoom(r.h)
         /\ Returned(r.h, "add_blocker",
                     [ description |-> "blocked", impact |-> "HIGH" ],
                     r.result)

FeatureResolveBlocker ==
  /\ last = NoCall
  /\ \E i \in DOMAIN state.blockers :
       LET r == resolve_blocker(Handle, state.blockers[i].id,
                                <<"Resolution">>)
       IN  Returned(r.h, "resolve_blocker",
                    [ blocker_id |-> state.blockers[i].id,
                      resolution |-> <<"Resolution">> ],
                    r.result)

FeatureAddPendingAction ==
  /\ last = NoCall
  /\ LET r == add_pending_action(Handle, "act", "Developer", "MEDIUM")
     IN  /\ FeatureRoom(r.h)
         /\ Returned(r.h, "add_pending_action",
                     [ action |-> "act", owner |-> "Developer",
                       priority |-> "MEDIUM" ],
                     r.result)

FeatureCompletePendingAction ==
  /\ last = NoCall
  /\ \E i \in DOMAIN state.pending_actions :
       LET r == complete_pending_action(Handle, state.pending_actions[i].id,
                                        <<>>)
       IN  Returned(r.h, "complete_pending_action",
                    [ action_id |-> state.pending_actions[i].id,
                      outcome |-> <<>> ],
                    r.result)

FeatureRecordDecision ==
  /\ last = NoCall
  /\ LET r == record_decision(Handle, "Decision", "Rationale", <<>>, <<>>)
     IN  /\ FeatureRoom(r.h)
         /\ Returned(r.h, "record_decision",
                     [ decision |-> "Decision", rationale |-> "Rationale" ],
                     r.result)

NextFeature ==
  \/ SetFeature
  \/ ClearCurrentFeature
  \/ FeatureTransitionState
  \/ FeatureAddHandover
  \/ UpdateAgentContext
  \/ FeatureAddBlocker
  \/ FeatureResolveBlocker
  \/ FeatureAddPendingAction
  \/ FeatureCompletePendingAction
  \/ FeatureRecordDecision
  \/ Proceed

SpecFeature == Init /\ [][NextFeature]_vars

\* --------------------------------------------------------- concurrent callers
\* Each worker records one decision.  pc of a worker: "start", "ready" (it
\* has its handle), "appended" (the record is in self._state), "locked" (it
\* holds the lock file), "writing" (the temporary path is open), "written"
\* (closed), "renamed", "done" (the lock released, the call returned).
\* The handle k as the call of a worker sees it.
WorkerHandle(k) == [ state |-> mem[k], disk |-> disk, uuid |-> uuid, writes |-> 0, now |-> now, backup |-> backup ]

Files == [ disk |-> disk, tmp |-> tmp ]

\* CoordinatorMemory(path) in the process of worker w: exists() without the
\* lock, the file read under it.
ConstructStep(w) ==
  /\ pc[w] = "start"
  /\ disk.exists => lock = 0
  /\ LET r == load_state(WorkerHandle(w))
     IN  /\ r.result.raised = None
         /\ mem' = [ mem EXCEPT ![w] = r.h.state ]
         /\ disk' = r.h.disk
         /\ backup' = r.h.backup
  /\ pc' = [ pc EXCEPT ![w] = "ready" ]
  /\ UNCHANGED <<state, uuid, last, prev, now, lock, tmp, snapshots, call>>

\* record_decision by worker w on handle k, up to the append
AppendStep(w, k) ==
  /\ pc[w] = "ready"
  /\ LET r == append_decision(WorkerHandle(k), "Decision", "Rationale",
                              <<>>, <<>>)
     IN  /\ mem' = [ mem EXCEPT ![k] = r.h.state ]
         /\ uuid' = r.h.uuid
  /\ pc' = [ pc EXCEPT ![w] = "appended" ]
  /\ UNCHANGED <<state, disk, last, prev, now, backup, lock, tmp, snapshots, call>>

\* _save_state by worker w on handle k: self._state is serialized once the
\* lock is held and the temporary path open.
WriteStep(w, k) ==
  /\ pc[w] = "locked"
  /\ LET fs == open_and_dump(Files, serialize_state(mem[k]))
     IN  disk' = fs.disk /\ tmp' = fs.tmp
  /\ snapshots' = snapshots \cup { serialize_state(mem[k]) }
  /\ pc' = [ pc EXCEPT ![w] = "writing" ]
  /\ UNCHANGED <<state, uuid, last, prev, now, backup, mem, lock, call>>

\* _file_lock: fcntl.flock(LOCK_EX) blocks while another holds the lock
AcquireLock ==
  \E w \in Workers :
    /\ pc[w] = "appended"
    /\ lock = 0
    /\ lock' = w
    /\ pc' = [ pc EXCEPT ![w] = "locked" ]
    /\ UNCHANGED <<state, disk, uuid, last, prev, now, backup, mem, tmp, snapshots, call>>

CloseTmp ==
  \E w \in Workers :
    /\ pc[w] = "writing"
    /\ LET fs == close_file(Files)
       IN  disk' = fs.disk /\ tmp' = fs.tmp
    /\ pc' = [ pc EXCEPT ![w] = "written" ]
    /\ UNCHANGED <<state, uuid, last, prev, now, backup, mem, lock, snapshots, call>>

Rename ==
  \E w \in Workers :
    /\ pc[w] = "written"
    /\ LET fs == replace_file(Files)
       IN  disk' = fs.disk /\ tmp' = fs.tmp
    /\ pc' = [ pc EXCEPT ![w] = "renamed" ]
    /\ UNCHANGED <<state, uuid, last, prev, now, backup, mem, lock, snapshots, call>>

\* _file_lock: fcntl.flock(LOCK_UN) on the way out; the call returns
ReleaseLock ==
  \E w \in Workers :
    /\ pc[w] = "renamed"
    /\ lock = w
    /\ lock' = 0
    /\ pc' = [ pc EXCEPT ![w] = "done" ]
    /\ UNCHANGED <<state, disk, uuid, last, prev, now, backup, mem, tmp, snapshots, call>>

\* Independent processes, each with a handle of its own over the one file.
ProcConstruct == \E w \in Workers : ConstructStep(w)

ProcAppend == \E w \in Workers : AppendStep(w, w)

ProcWrite == \E w \in Workers : WriteStep(w, w)

NextProcs ==
  \/ ProcConstruct
  \/ ProcAppend
  \/ AcquireLock
  \/ ProcWrite
  \/ CloseTmp
  \/ Rename
  \/ ReleaseLock

SpecProcs == Init /\ [][NextProcs]_vars

\* Threads of one process that share the handle 1, constructed before they
\* are started over a path without a file.
ThreadStart ==
  \E w \in Workers :
    /\ pc[w] = "start"
    /\ pc' = [ pc EXCEPT ![w] = "ready" ]
    /\ UNCHANGED <<state, disk, uuid, last, prev, now, backup, mem, lock, tmp, snapshots, call>>

ThreadAppend == \E w \in Workers : AppendStep(w, 1)

ThreadWrite == \E w \in Workers : WriteStep(w, 1)

NextThreads ==
  \/ ThreadStart
  \/ ThreadAppend
  \/ AcquireLock
  \/ ThreadWrite
  \/ CloseTmp
  \/ Rename
  \/ ReleaseLock

SpecThreads == Init /\ [][NextThreads]_vars

\* Processes whose loads and saves are taken step by step, and whose saves
\* can fail.  Further values of pc: "found" (exists() was true), "reading"
\* (the load holds the lock), "read" (the file is deserialized), "failed"
\* (the write or the rename has raised, the lock still held), "raised" (the
\* lock released, the exception is with the caller).
NLockers == 2

Lockers == 1..NLockers

\* A process that ran earlier and has exited left the file behind: it had
\* saved the aggregate it was constructed with.
PriorRun ==
  /\ \A w \in Workers : pc[w] = "start"
  /\ ~ disk.exists
  /\ disk' = save_state(WorkerHandle(1)).disk
  /\ snapshots' = snapshots \cup { serialize_state(mem[1]) }
  /\ UNCHANGED <<state, uuid, last, prev, now, backup, mem, pc, lock, tmp, call>>

\* _load_state: exists() is asked without the lock; without a file the
\* initial state is returned at once.
LoadExists ==
  \E w \in Lockers :
    /\ pc[w] = "start"
    /\ IF disk.exists
         THEN /\ pc' = [ pc EXCEPT ![w] = "found" ]
              /\ mem' = mem
         ELSE /\ pc' = [ pc EXCEPT ![w] = "ready" ]
              /\ mem' = [ mem EXCEPT ![w] = create_initial_state ]
    /\ UNCHANGED <<state, disk, uuid, last, prev, now, backup, lock, tmp, snapshots, call>>

\* _load_state: fcntl.flock(LOCK_EX) on the way into the read
LoadAcquire ==
  \E w \in Lockers :
    /\ pc[w] = "found"
    /\ load_lock(lock, w).free
    /\ lock' = load_lock(lock, w).holder
    /\ pc' = [ pc EXCEPT ![w] = "reading" ]
    /\ UNCHANGED <<state, disk, uuid, last, prev, now, backup, mem, tmp, snapshots, call>>

\* _load_state: json.load and _deserialize_state
LoadRead ==
  \E w \in Lockers :
    /\ pc[w] = "reading"
    /\ LET r == load_state(WorkerHandle(w))
       IN  /\ r.result.raised = None
           /\ mem' = [ mem EXCEPT ![w] = r.h.state ]
           /\ disk' = r.h.disk
           /\ backup' = r.h.backup
    /\ pc' = [ pc EXCEPT ![w] = "read" ]
    /\ UNCHANGED <<state, uuid, last, prev, now, lock, tmp, snapshots, call>>

\* _load_state: the lock is released on the way out of the read
LoadRelease ==
  \E w \in Lockers :
    /\ pc[w] = "read"
    /\ lock' = IF lock = w THEN file_lock_exit(lock) ELSE lock
    /\ pc' = [ pc EXCEPT ![w] = "ready" ]
    /\ UNCHANGED <<state, disk, uuid, last, prev, now, backup, mem, tmp, snapshots, call>>

\* _save_state: open(temp_path, 'w') or json.dump raises (the disk is full)
WriteFails ==
  \E w \in Lockers :
    /\ pc[w] \in { "locked", "writing" }
    /\ LET fs == dump_failed(Files)
       IN  disk' = fs.disk /\ tmp' = fs.tmp
    /\ pc' = [ pc EXCEPT ![w] = "failed" ]
    /\ UNCHANGED <<state, uuid, last, prev, now, backup, mem, lock, snapshots, call>>

\* _save_state: temp_path.replace raises; the temporary file stays
RenameFails ==
  \E w \in Lockers :
    /\ pc[w] = "written"
    /\ pc' = [ pc EXCEPT ![w] = "failed" ]
    /\ UNCHANGED <<state, disk, uuid, last, prev, now, backup, mem, lock, tmp, snapshots, call>>

\* _file_lock: the finally clause after the body has raised; the exception
\* leaves _save_state and the public call
ReleaseFailed ==
  \E w \in Lockers :
    /\ pc[w] = "failed"
    /\ lock = w
    /\ lock' = file_lock_exit(lock)
    /\ pc' = [ pc EXCEPT ![w] = "raised" ]
    /\ UNCHANGED <<state, disk, uuid, last, prev, now, backup, mem, tmp, snapshots, call>>

NextLock ==
  \/ PriorRun
  \/ LoadExists
  \/ LoadAcquire
  \/ LoadRead
  \/ LoadRelease
  \/ ProcAppend
  \/ AcquireLock
  \/ ProcWrite
  \/ WriteFails
  \/ CloseTmp
  \/ RenameFails
  \/ Rename
  \/ ReleaseLock
  \/ ReleaseFailed

SpecLock == Init /\ [][NextLock]_vars

\* ------------------------------------------- handovers statement by statement
\* transition_state and add_handover by worker w on handle k, add_handover
\* taken apart at the calls it makes: its checks and the append of the
\* record, the nested transition_state, the two update_agent_context, the
\* count and the final save.  Each save is one step: the lock keeps saves
\* apart.  Further values of pc: "logged", "moved", "handed", "received",
\* "returned" (the result is with the caller).
\* add_handover up to the append of the Approved record
handover_logged(h, from_agent, to_agent, from_state, to_state, reason) ==
  LET id       == h.uuid + 1
      handover == HandoverRecord(id, from_agent, to_agent, from_state,
                                 to_state, reason, "APPROVED", NoMessage)
  IN  [ h |-> [ h EXCEPT !.uuid = id,
                         !.state.handover_log = Append(@, handover) ],
        result |-> handover ]

\* add_handover, its last two statements: the count and the save
handover_counted(h) ==
  save_state([ h EXCEPT !.state.metrics.total_handovers = @ + 1 ])

\* The logs stay short.
StepRoom(h) ==
  /\ Len(h.state.state_history) <= MaxStoreHistory
  /\ Len(h.state.handover_log) <= MaxHandovers

\* What a step leaves behind: self._state of handle k, the file and the ids
\* issued.  A step saves at most once, so every document written is the
\* content of the file in the state after its step; snapshots is not kept.
StepDone(h, k) ==
  /\ mem' = [ mem EXCEPT ![k] = h.state ]
  /\ disk' = h.disk
  /\ uuid' = h.uuid
  /\ UNCHANGED <<state, last, prev, now, backup, lock, tmp, snapshots>>

\* transition_state, called on its own
TransitionStep(w, k) ==
  /\ pc[w] = "ready"
  /\ \E from_state \in PhaseInputs, to_state \in PhaseInputs :
       LET r == transition_state(WorkerHandle(k), from_state, to_state,
                                 <<"reason">>, None)
       IN  /\ StepRoom(r.h)
           /\ StepDone(r.h, k)
           /\ call' = [ call EXCEPT ![w] =
                          [ op |-> "transition_state",
                            args |-> [ from_state |-> from_state,
                                       to_state |-> to_state ],
                            result |-> r.result, writes |-> r.h.writes ] ]
  /\ pc' = [ pc EXCEPT ![w] = "returned" ]

\* update_agent_context, called on its own: an agent reports itself blocked
ContextStep(w, k) ==
  /\ pc[w] = "ready"
  /\ LET h == update_agent_context(WorkerHandle(k), "Developer", "BLOCKED",
                                   <<>>, <<>>, <<>>)
     IN  /\ StepDone(h, k)
         /\ call' = [ call EXCEPT ![w] =
                        [ op |-> "update_agent_context",
                          args |-> [ agent_name |-> "Developer",
                                     status |-> "BLOCKED" ],
                          result |-> <<>>, writes |-> h.writes ] ]
  /\ pc' = [ pc EXCEPT ![w] = "returned" ]

\* add_handover: the two checks; a mismatch returns, a rejection is logged,
\* counted and saved, an approval is logged
HandoverCheckStep(w, k) ==
  /\ pc[w] = "ready"
  /\ \E from_state \in PhaseInputs, to_state \in PhaseInputs :
       LET h    == WorkerHandle(k)
           args == [ from_agent |-> "Developer", to_agent |-> "Guest Agent",
                     from_state |-> from_state, to_state |-> to_state,
                     reason |-> <<"reason">> ]
           approving == /\ h.state.current_state = from_state
                        /\ is_valid_transition(from_state, to_state)
           r    == IF approving
                     THEN handover_logged(h, args.from_agent, args.to_agent,
                                          from_state, to_state, args.reason)
                     ELSE add_handover(h, args.from_agent, args.to_agent,
                                       from_state, to_state, args.reason)
       IN  /\ StepRoom(r.h)
           /\ StepDone(r.h, k)
           /\ call' = [ call EXCEPT ![w] =
                          [ op |-> "add_handover", args |-> args,
                            result |-> r.result, writes |-> r.h.writes ] ]
           /\ pc' = [ pc EXCEPT ![w] =
                        IF approving THEN "logged" ELSE "returned" ]

\* add_handover: the nested transition_state, which checks the current
\* phase again; when it fails add_handover returns the failure
HandoverTransitionStep(w, k) ==
  /\ pc[w] = "logged"
  /\ LET args == call[w].args
         r    == transition_state(WorkerHandle(k), args.from_state,
                   args.to_state,
                   HandoverReason(args.from_agent, args.to_agent), None)
     IN  /\ StepDone(r.h, k)
         /\ IF r.result.success
              THEN /\ call' = [ call EXCEPT ![w].writes = @ + r.h.writes ]
                   /\ pc' = [ pc EXCEPT ![w] = "moved" ]
              ELSE /\ call' = [ call EXCEPT ![w].result =
                                  HandoverResult(FALSE,
                                    r.result.error_message, @) ]
                   /\ pc' = [ pc EXCEPT ![w] = "returned" ]

\* add_handover: update_agent_context(from_agent, IDLE, ...)
HandoverFromStep(w, k) ==
  /\ pc[w] = "moved"
  /\ LET args == call[w].args
         h    == update_agent_context(WorkerHandle(k), args.from_agent,
                   "IDLE", HandedOverOutput(args.to_agent), <<>>, <<>>)
     IN  /\ StepDone(h, k)
         /\ call' = [ call EXCEPT ![w].writes = @ + h.writes ]
  /\ pc' = [ pc EXCEPT ![w] = "handed" ]

\* add_handover: update_agent_context(to_agent, WORKING, ...)
HandoverToStep(w, k) ==
  /\ pc[w] = "handed"
  /\ LET args == call[w].args
         h    == update_agent_context(WorkerHandle(k), args.to_agent,
                   "WORKING", ReceivedOutput(args.from_agent), <<>>, <<>>)
     IN  /\ StepDone(h, k)
         /\ call' = [ call EXCEPT ![w].writes = @ + h.writes ]
  /\ pc' = [ pc EXCEPT ![w] = "received" ]

\* add_handover: the count, the save and the return
HandoverCountStep(w, k) ==
  /\ pc[w] = "received"
  /\ LET h == handover_counted(WorkerHandle(k))
     IN  /\ StepDone(h, k)
         /\ call' = [ call EXCEPT
                        ![w].writes = @ + h.writes,
                        ![w].result = HandoverResult(TRUE, NoMessage, @) ]
  /\ pc' = [ pc EXCEPT ![w] = "returned" ]

\* The caller takes the result and is ready for its next call.
ReturnStep(w) ==
  /\ pc[w] = "returned"
  /\ pc' = [ pc EXCEPT ![w] = "ready" ]
  /\ call' = [ call EXCEPT ![w] = NoCall ]
  /\ UNCHANGED <<state, disk, uuid, last, prev, now, backup, mem, lock, tmp, snapshots>>

\* Two threads of one process that share the handle 1.
SharedStart ==
  \E w \in Lockers :
    /\ pc[w] = "start"
    /\ pc' = [ pc EXCEPT ![w] = "ready" ]
    /\ UNCHANGED <<state, disk, uuid, last, prev, now, backup, mem, lock, tmp, snapshots, call>>

SharedTransition == \E w \in Lockers : TransitionStep(w, 1)

SharedHandoverCheck == \E w \in Lockers : HandoverCheckStep(w, 1)

SharedHandoverTransition == \E w \in Lockers : HandoverTransitionStep(w, 1)

SharedHandoverFrom == \E w \in Lockers : HandoverFromStep(w, 1)

SharedHandoverTo == \E w \in Lockers : HandoverToStep(w, 1)

SharedHandoverCount == \E w \in Lockers : HandoverCountStep(w, 1)

Return == \E w \in Lockers : ReturnStep(w)

NextShared ==
  \/ SharedStart
  \/ SharedTransition
  \/ SharedHandoverCheck
  \/ SharedHandoverTransition
  \/ SharedHandoverFrom
  \/ SharedHandoverTo
  \/ SharedHandoverCount
  \/ Return

SpecShared == Init /\ [][NextShared]_vars

\* Processes with a handle each over the one file, constructed at any time.
HandleConstruct == \E w \in Lockers : ConstructStep(w)

HandleTransition == \E w \in Lockers : TransitionStep(w, w)

HandleContext == \E w \in Lockers : ContextStep(w, w)

NextHandles ==
  \/ HandleConstruct
  \/ HandleTransition
  \/ HandleContext
  \/ Return

SpecHandles == Init /\ [][NextHandles]_vars

\* ------------------------------------------------ recovery step by step
\* _load_state over a file that does not parse, with the except clause
\* taken apart.  Further values of pc: "unreadable" (json.load or
\* _deserialize_state has raised an exception the except clause names, the
\* lock still held), "caught" (the with statement left and the lock
\* released, the except clause entered).
\* Something other than a handle leaves text at the path that is no JSON
\* document, or a document without currentState.
PriorCorruption ==
  /\ ~ disk.exists
  /\ backup = NoFile
  /\ \E content \in { InvalidJson, MissingKeyDocument } :
       disk' = [ exists |-> TRUE, data |-> content ]
  /\ UNCHANGED <<state, uuid, last, prev, now, backup, workers>>

\* What open, json.load and _deserialize_state raise on the file (None:
\* nothing).
read_raises(file) ==
  IF ~ file.exists THEN "FileNotFoundError"
  ELSE IF NotJson(file.data) THEN "JSONDecodeError"
  ELSE deserialize_state(file.data).raised

\* _load_state under the lock: open, json.load, _deserialize_state
RecoverRead ==
  \E w \in Lockers :
    /\ pc[w] = "reading"
    /\ LET raised == read_raises(disk)
       IN  IF raised = None
             THEN /\ mem' = [ mem EXCEPT
                                ![w] = deserialize_state(disk.data).state ]
                  /\ pc' = [ pc EXCEPT ![w] = "read" ]
           ELSE IF raised \in { "JSONDecodeError", "KeyError", "ValueError" }
             THEN /\ mem' = mem
                  /\ pc' = [ pc EXCEPT ![w] = "unreadable" ]
           ELSE /\ mem' = mem
                /\ pc' = [ pc EXCEPT ![w] = "failed" ]
    /\ UNCHANGED <<state, disk, uuid, last, prev, now, backup, lock, tmp, snapshots, call>>

\* _file_lock: the finally clause, the exception on its way to the except
\* clause of _load_state
RecoverRelease ==
  \E w \in Lockers :
    /\ pc[w] = "unreadable"
    /\ lock = w
    /\ lock' = file_lock_exit(lock)
    /\ pc' = [ pc EXCEPT ![w] = "caught" ]
    /\ UNCHANGED <<state, disk, uuid, last, prev, now, backup, mem, tmp, snapshots, call>>

\* _load_state, the except clause: self._state_file_path.rename(backup_path)
\* moves whatever is at the real path, and raises FileNotFoundError when
\* nothing is.
RecoverRename ==
  \E w \in Lockers :
    /\ pc[w] = "caught"
    /\ IF disk.exists
         THEN LET r == load_failed(WorkerHandle(w), "JSONDecodeError")
              IN  /\ mem' = [ mem EXCEPT ![w] = r.h.state ]
                  /\ disk' = r.h.disk
                  /\ backup' = r.h.backup
                  /\ pc' = [ pc EXCEPT ![w] = "ready" ]
         ELSE /\ pc' = [ pc EXCEPT ![w] = "raised" ]
              /\ UNCHANGED <<mem, disk, backup>>
    /\ UNCHANGED <<state, uuid, last, prev, now, lock, tmp, snapshots, call>>

NextRecover ==
  \/ PriorCorruption
  \/ LoadExists
  \/ LoadAcquire
  \/ RecoverRead
  \/ LoadRelease
  \/ RecoverRelease
  \/ RecoverRename
  \/ ReleaseFailed
  \/ ProcAppend
  \/ AcquireLock
  \/ ProcWrite
  \/ CloseTmp
  \/ Rename
  \/ ReleaseLock

SpecRecover == Init /\ [][NextRecover]_vars

\* -------------------------------------------------- keys of the metric maps
\* No operation puts a key into state_cycle_times or agent_utilization
\* after _create_initial_state: the keys of other shapes come from the file.
\* One key of each shape: all upper-case, with a space, with an underscore,
\* mixed case.
MetricKeys == { "CI_CD", "Tech Lead", "qa_agent", "Developer" }

MetricMaps == { [ k \in keys |-> 1 ] : keys \in SUBSET MetricKeys \ { {} } }

\* The document of a fresh aggregate with the two maps replaced.
MetricsDocument(cycle_times, utilization) ==
  [ serialize_state(create_initial_state) EXCEPT
      !.metrics.stateCycleTimes  = cycle_times,
      !.metrics.agentUtilization = utilization ]

\* Something other than a handle leaves a complete document at the path
\* whose metric maps hold keys chosen by hand.
PlaceMetrics ==
  /\ last = NoCall
  /\ \E map \in MetricMaps :
       disk' = [ exists |-> TRUE, data |-> MetricsDocument(map, map) ]
  /\ UNCHANGED <<state, uuid, last, prev, now, backup, workers>>

NextKeys ==
  \/ PlaceMetrics
  \/ Load
  \/ ClearCurrentFeature
  \/ UpdateAgentContext
  \/ Proceed

SpecKeys == Init /\ [][NextKeys]_vars

\* ==================================================================== claims
\* The literal transition table of the specification, as (source,
\* destination) pairs.
TransitionTable ==
  { <<"INIT", "REQUIREMENTS">>,
    <<"REQUIREMENTS", "ARCHITECTURE">>,
    <<"ARCHITECTURE", "DEVELOPMENT">>, <<"ARCHITECTURE", "REQUIREMENTS">>,
    <<"DEVELOPMENT", "CI_CD">>, <<"DEVELOPMENT", "ARCHITECTURE">>,
    <<"CI_CD", "REVIEW">>, <<"CI_CD", "DEVELOPMENT">>,
    <<"REVIEW", "TESTING">>, <<"REVIEW", "DEVELOPMENT">>,
    <<"REVIEW", "ARCHITECTURE">>,
    <<"TESTING", "PERFORMANCE">>, <<"TESTING", "DEVELOPMENT">>,
    <<"PERFORMANCE", "VALIDATION">>, <<"PERFORMANCE", "DEVELOPMENT">>,
    <<"VALIDATION", "COMPLETE">>, <<"VALIDATION", "REQUIREMENTS">> }

TableTargets(from_state) ==
  { t \in States : <<from_state, t>> \in TransitionTable }

IsEdge(from_state, to_state) == <<from_state, to_state>> \in TransitionTable

CalledTransition == last.op = "transition_state"

CalledHandover == last.op = "add_handover"

\* log is old with exactly one record appended
AppendedOne(old, log) ==
  /\ Len(log) = Len(old) + 1
  /\ SubSeq(log, 1, Len(old)) = old

\* C1: is_valid_transition(from, to) is true exactly for the pairs of the
\* literal transition table, for every ordered pair of the 10 phases; no
\* phase has a self-edge and COMPLETE has no outgoing edge.
C1_PolicyIsTheTable ==
  last.op = "is_valid_transition" =>
    /\ last.result <=> IsEdge(last.args.from_state, last.args.to_state)
    /\ last.args.from_state = last.args.to_state => ~ last.result
    /\ last.args.from_state = "COMPLETE" => ~ last.result

C1_Witness ==
  /\ last.op = "is_valid_transition"
  /\ last.args = [ from_state |-> "REVIEW", to_state |-> "ARCHITECTURE" ]
  /\ last.result

\* C2: in every reachable state the current phase is the destination of the
\* last entry of the transition log, or INIT when the log is empty.
C2_PhaseIsLastDestination ==
  state.current_state =
    IF state.state_history = <<>>
      THEN "INIT"
      ELSE state.state_history[Len(state.state_history)].to_state

C2_Witness ==
  /\ Len(state.state_history) = 3
  /\ state.current_state = "REQUIREMENTS"
  /\ CalledHandover

\* C3: the transition log is a chain: it starts at INIT, every later entry
\* starts where the entry before it ended, and every entry is an edge of the
\* transition table; after successful and failed calls alike.
C3_HistoryIsChain ==
  \A i \in 1..Len(state.state_history) :
    LET t == state.state_history[i]
    IN  /\ IsEdge(t.from_state, t.to_state)
        /\ t.from_state = IF i = 1 THEN "INIT"
                                   ELSE state.state_history[i - 1].to_state

C3_Witness ==
  /\ Len(state.state_history) = 3
  /\ CalledTransition
  /\ ~ last.result.success
  /\ last.args.from_state # prev.current_state
  /\ IsEdge(last.args.from_state, last.args.to_state)

\* C4: transition_state with a from phase that is not the current phase
\* fails with an error carrying the actual current phase, appends nothing,
\* leaves the whole aggregate unchanged and writes nothing.
C4_MismatchedTransitionFails ==
  (CalledTransition /\ last.args.from_state # prev.current_state) =>
    /\ ~ last.result.success
    /\ last.result.error_message.text = "Current state is {0}, expected {1}"
    /\ last.result.error_message.args =
         <<prev.current_state, last.args.from_state>>
    /\ last.result.transition = NoTransition
    /\ state = prev
    /\ last.writes = 0

C4_Witness ==
  /\ CalledTransition
  /\ prev.current_state = "INIT"
  /\ last.args.from_state = "REQUIREMENTS"
  /\ last.args.to_state = "ARCHITECTURE"
  /\ ~ last.result.success

\* C5: transition_state from the current phase along a pair that is no edge
\* fails with an error that enumerates exactly the valid targets of the from
\* phase, leaves phase, log and metrics unchanged and writes nothing.
C5_InvalidTransitionFails ==
  ( /\ CalledTransition
    /\ last.args.from_state = prev.current_state
    /\ ~ IsEdge(last.args.from_state, last.args.to_state) ) =>
    /\ ~ last.result.success
    /\ last.result.error_message.text =
         "Invalid transition from {0} to {1}. Valid targets: {2}"
    /\ last.result.error_message.args =
         <<last.args.from_state, last.args.to_state>>
    /\ last.result.error_message.targets = TableTargets(last.args.from_state)
    /\ state.current_state = prev.current_state
    /\ state.state_history = prev.state_history
    /\ state.metrics = prev.metrics
    /\ last.writes = 0

C5_Witness ==
  /\ CalledTransition
  /\ prev.current_state = "ARCHITECTURE"
  /\ last.args.from_state = "ARCHITECTURE"
  /\ last.args.to_state = "INIT"
  /\ last.result.error_message.targets = { "DEVELOPMENT", "REQUIREMENTS" }

\* C6: transition_state from the current phase along an edge succeeds,
\* appends exactly one approved StateTransition, moves the current phase to
\* the to phase and writes exactly once.
C6_ValidTransitionSucceeds ==
  ( /\ CalledTransition
    /\ last.args.from_state = prev.current_state
    /\ IsEdge(last.args.from_state, last.args.to_state) ) =>
    /\ last.result.success
    /\ AppendedOne(prev.state_history, state.state_history)
    /\ LET t == state.state_history[Len(state.state_history)]
       IN  /\ t.approved = TRUE
           /\ t.from_state = last.args.from_state
           /\ t.to_state = last.args.to_state
           /\ last.result.transition = t
    /\ state.current_state = last.args.to_state
    /\ last.writes = 1

C6_Witness ==
  /\ CalledTransition
  /\ last.result.success
  /\ last.args.from_state = "ARCHITECTURE"
  /\ last.args.to_state = "REQUIREMENTS"
  /\ Len(state.state_history) = 3

\* The record a handover call appended to the handover log.
NewHandover == state.handover_log[Len(state.handover_log)]

Persisted ==
  /\ last.writes >= 1
  /\ disk = [ exists |-> TRUE, data |-> serialize_state(state) ]

\* C7: a handover from the current phase along a pair that is no edge is
\* rejected: phase and transition log unchanged, exactly one REJECTED record
\* with a rejection reason appended, total_handovers and rejected_handovers
\* each one higher, and the state persisted.
C7_InvalidHandoverRejected ==
  ( /\ CalledHandover
    /\ last.args.from_state = prev.current_state
    /\ ~ IsEdge(last.args.from_state, last.args.to_state) ) =>
    /\ ~ last.result.success
    /\ state.current_state = prev.current_state
    /\ state.state_history = prev.state_history
    /\ AppendedOne(prev.handover_log, state.handover_log)
    /\ NewHandover.status = "REJECTED"
    /\ NewHandover.rejection_reason # NoMessage
    /\ NewHandover.from_state = last.args.from_state
    /\ NewHandover.to_state = last.args.to_state
    /\ last.result.handover = NewHandover
    /\ state.metrics.total_handovers = prev.metrics.total_handovers + 1
    /\ state.metrics.rejected_handovers = prev.metrics.rejected_handovers + 1
    /\ Persisted

C7_Witness ==
  /\ CalledHandover
  /\ prev.current_state = "REQUIREMENTS"
  /\ last.args.from_state = "REQUIREMENTS"
  /\ last.args.to_state = "INIT"
  /\ Len(state.handover_log) = 2
  /\ state.metrics.rejected_handovers = 2

\* C8, as stated: a handover with a from phase that is not the current phase
\* still appends a REJECTED record with the rejection reason, increments
\* rejected_handovers and total_handovers, persists and returns failure.
C8_MismatchedHandoverLogged ==
  (CalledHandover /\ last.args.from_state # prev.current_state) =>
    /\ ~ last.result.success
    /\ AppendedOne(prev.handover_log, state.handover_log)
    /\ NewHandover.status = "REJECTED"
    /\ NewHandover.rejection_reason # NoMessage
    /\ state.metrics.total_handovers = prev.metrics.total_handovers + 1
    /\ state.metrics.rejected_handovers = prev.metrics.rejected_handovers + 1
    /\ Persisted

\* C8, amended: a handover with a from phase that is not the current phase
\* returns failure with an error carrying the actual current phase and no
\* record; it appends nothing to the handover log, leaves both counters and
\* the whole aggregate unchanged and writes nothing.
C8_MismatchedHandoverNotLogged ==
  (CalledHandover /\ last.args.from_state # prev.current_state) =>
    /\ ~ last.result.success
    /\ last.result.error_message.text = "Current state is {0}, expected {1}"
    /\ last.result.error_message.args =
         <<prev.current_state, last.args.from_state>>
    /\ last.result.handover = NoHandover
    /\ state = prev
    /\ last.writes = 0

C8_Witness ==
  /\ CalledHandover
  /\ prev.current_state = "REQUIREMENTS"
  /\ last.args.from_state = "INIT"
  /\ last.args.to_state = "REQUIREMENTS"
  /\ ~ last.result.success
  /\ Len(prev.handover_log) = 1

ApprovedCase ==
  /\ CalledHandover
  /\ last.args.from_state = prev.current_state
  /\ IsEdge(last.args.from_state, last.args.to_state)

StatusOf(agent_name) ==
  IF agent_name \in DOMAIN state.agent_context
    THEN state.agent_context[agent_name].status
    ELSE None

\* What C9 says of the log, the phase and the counters.
ApprovedEffect ==
  /\ last.result.success
  /\ AppendedOne(prev.handover_log, state.handover_log)
  /\ NewHandover.status = "APPROVED"
  /\ NewHandover.rejection_reason = NoMessage
  /\ NewHandover.from_agent = last.args.from_agent
  /\ NewHandover.to_agent = last.args.to_agent
  /\ last.result.handover = NewHandover
  /\ state.current_state = last.args.to_state
  /\ state.metrics.total_handovers = prev.metrics.total_handovers + 1
  /\ state.metrics.rejected_handovers = prev.metrics.rejected_handovers

\* C9, as stated: an approved handover, for any source and destination agent
\* names, appends one APPROVED record without rejection reason, advances the
\* phase, leaves the source agent IDLE and the destination agent WORKING,
\* and counts one more handover and no more rejected ones.
C9_ApprovedHandoverAnyAgents ==
  ApprovedCase =>
    /\ ApprovedEffect
    /\ StatusOf(last.args.from_agent) = "IDLE"
    /\ StatusOf(last.args.to_agent) = "WORKING"

\* C9, amended: as stated, for a source agent other than the destination
\* agent; when one agent hands over to itself its context is left WORKING,
\* the destination update being the later one.
C9_ApprovedHandover ==
  ApprovedCase =>
    /\ ApprovedEffect
    /\ StatusOf(last.args.to_agent) = "WORKING"
    /\ last.args.from_agent # last.args.to_agent =>
         StatusOf(last.args.from_agent) = "IDLE"

C9_Witness ==
  /\ ApprovedCase
  /\ last.args.from_agent = "Developer"
  /\ last.args.to_agent = "Guest Agent"
  /\ prev.agent_context["Developer"].status = "BLOCKED"
  /\ "Guest Agent" \notin DOMAIN prev.agent_context
  /\ state.agent_context["Developer"].status = "IDLE"
  /\ state.agent_context["Guest Agent"].status = "WORKING"

\* C10: every record of the handover log has a rejection reason exactly when
\* its status is REJECTED, and no call modifies or removes a record that is
\* in the log: the log before a call is a prefix of the log after it.
C10_HandoverLogImmutable ==
  /\ \A i \in 1..Len(state.handover_log) :
       (state.handover_log[i].rejection_reason # NoMessage)
         <=> (state.handover_log[i].status = "REJECTED")
  /\ Len(prev.handover_log) <= Len(state.handover_log)
  /\ SubSeq(state.handover_log, 1, Len(prev.handover_log)) = prev.handover_log

C10_Witness ==
  /\ CalledHandover
  /\ Len(prev.handover_log) = 1
  /\ Len(state.handover_log) = 2
  /\ state.handover_log[1].status = "REJECTED"
  /\ state.handover_log[2].status = "APPROVED"


\* The entries of a transition log that go from one phase to another.
Entries(log, from_state, to_state) ==
  { i \in 1..Len(log) :
      log[i].from_state = from_state /\ log[i].to_state = to_state }

Completions(log) == { i \in 1..Len(log) : log[i].to_state = "COMPLETE" }

Backward(from_state, to_state) == index(to_state) < index(from_state)

\* C11: in every reachable state total_features is the number of entries of
\* the transition log whose destination is COMPLETE, and a workflow driven
\* from the fresh aggregate into COMPLETE has counted exactly one feature,
\* whatever rework loops it went through.
C11_FeaturesCountCompletions ==
  /\ state.metrics.total_features =
       Cardinality(Completions(state.state_history))
  /\ state.current_state = "COMPLETE" => state.metrics.total_features = 1

\* A workflow that reached COMPLETE through a rework loop.
C11_Witness ==
  /\ state.current_state = "COMPLETE"
  /\ state.metrics.total_features = 1
  /\ \E i \in 1..Len(state.state_history) :
       Backward(state.state_history[i].from_state,
                state.state_history[i].to_state)

\* C12: rework_patterns holds at most one entry per (source, destination)
\* pair, every entry is a backward edge of the graph, every entry's count
\* is the number of log entries with that pair, every backward log entry
\* has its pattern, and an accepted forward transition leaves
\* rework_patterns as it was.
C12_ReworkPatterns ==
  LET patterns == state.metrics.rework_patterns
      log      == state.state_history
  IN  /\ \A i, j \in 1..Len(patterns) :
           ( /\ patterns[i].from_state = patterns[j].from_state
             /\ patterns[i].to_state = patterns[j].to_state ) => i = j
      /\ \A i \in 1..Len(patterns) :
           /\ IsEdge(patterns[i].from_state, patterns[i].to_state)
           /\ Backward(patterns[i].from_state, patterns[i].to_state)
           /\ patterns[i].count =
                Cardinality(Entries(log, patterns[i].from_state,
                                    patterns[i].to_state))
      /\ \A k \in 1..Len(log) :
           Backward(log[k].from_state, log[k].to_state) =>
             \E i \in 1..Len(patterns) :
               /\ patterns[i].from_state = log[k].from_state
               /\ patterns[i].to_state = log[k].to_state
      /\ ( /\ CalledTransition
           /\ last.result.success
           /\ ~ Backward(last.args.from_state, last.args.to_state) ) =>
             patterns = prev.metrics.rework_patterns

\* An accepted forward transition after the same rework happened twice.
C12_Witness ==
  /\ CalledTransition
  /\ last.result.success
  /\ ~ Backward(last.args.from_state, last.args.to_state)
  /\ \E i \in 1..Len(state.metrics.rework_patterns) :
       state.metrics.rework_patterns[i].count = 2

\* A call made on a completed workflow fails and leaves the current phase
\* and the transition log as they were.
FailsAtComplete ==
  ( /\ prev.current_state = "COMPLETE"
    /\ CalledTransition \/ CalledHandover ) =>
      /\ ~ last.result.success
      /\ state.current_state = "COMPLETE"
      /\ state.state_history = prev.state_history

\* A step taken at COMPLETE keeps the phase and the transition log.
StaysComplete ==
  state.current_state = "COMPLETE" =>
    /\ state'.current_state = "COMPLETE"
    /\ state'.state_history = state.state_history

\* C13: COMPLETE is absorbing: once the current phase is COMPLETE every
\* later transition_state and add_handover call fails, and the current
\* phase and the transition log never change again.
C13_CompleteIsAbsorbing == [] FailsAtComplete /\ [][StaysComplete]_vars

\* A handover out of COMPLETE was offered to a completed workflow.
C13_Witness ==
  /\ prev.current_state = "COMPLETE"
  /\ CalledHandover
  /\ last.args.from_state = "COMPLETE"
  /\ Len(state.handover_log) = Len(prev.handover_log) + 1


CalledLoad == last.op = "load_state"

\* The file that the load found is the one a save of the aggregate wrote.
LoadedOwnSave ==
  /\ CalledLoad
  /\ last.args.file = [ exists |-> TRUE, data |-> serialize_state(prev) ]

\* C14: saving the aggregate and loading it in a fresh handle gives an
\* aggregate with the same current phase, the same current feature, the
\* same transition log and the same handover log.
C14_RoundTrip ==
  LoadedOwnSave =>
    /\ last.result = LoadResult(None, FALSE)
    /\ state.current_state = prev.current_state
    /\ state.current_feature = prev.current_feature
    /\ state.state_history = prev.state_history
    /\ state.handover_log = prev.handover_log

\* A workflow with a feature, a transition and a handover was reloaded.
C14_Witness ==
  /\ LoadedOwnSave
  /\ state.current_state = "REQUIREMENTS"
  /\ state.current_feature # <<>>
  /\ state.state_history # <<>>
  /\ state.handover_log # <<>>

\* The file that the load found exists but json.load or
\* _deserialize_state fails on it.
LoadedUnreadable ==
  /\ CalledLoad
  /\ last.args.file.exists
  /\ \/ NotJson(last.args.file.data)
     \/ deserialize_state(last.args.file.data).raised # None

\* C15: loading a file that does not parse, or that parses but lacks a
\* required key, has an unexpected field in a record or is no object at
\* the top level, never raises: the load returns the fresh INIT aggregate
\* and the file is renamed to the backup path.
C15_UnreadableFileRecovered ==
  LoadedUnreadable =>
    /\ last.result = LoadResult(None, TRUE)
    /\ state = create_initial_state
    /\ backup = last.args.file
    /\ ~ disk.exists


CalledResolve == last.op = "resolve_blocker"

CalledComplete == last.op = "complete_pending_action"

\* C19: a blocker becomes RESOLVED once and is never re-opened: a resolved
\* blocker stays RESOLVED, and a later resolve_blocker call with its id
\* changes neither its resolution timestamp nor its resolution text.
C19_ResolvedOnce ==
  \A i \in DOMAIN prev.blockers :
    prev.blockers[i].status = "RESOLVED" =>
      /\ i \in DOMAIN state.blockers
      /\ state.blockers[i].id = prev.blockers[i].id
      /\ state.blockers[i].status = "RESOLVED"
      /\ state.blockers[i].resolved_at = prev.blockers[i].resolved_at
      /\ state.blockers[i].resolution = prev.blockers[i].resolution

\* The aggregate but for its blockers, and but for its pending actions.
WithoutBlockers(s) == [ s EXCEPT !.blockers = <<>> ]

WithoutActions(s) == [ s EXCEPT !.pending_actions = <<>> ]

\* list is old with the record at position i replaced by record.
ReplacedAt(old, list, i, record) ==
  /\ Len(list) = Len(old)
  /\ list[i] = record
  /\ \A j \in DOMAIN old : j # i => list[j] = old[j]

\* The call returned False, touched nothing and wrote nothing.
NotFound ==
  /\ last.result = FALSE
  /\ state = prev
  /\ last.writes = 0

AllDone == \A w \in Workers : pc[w] = "done"

\* The ids of the decisions of a list.
DecisionIds(decisions) == { decisions[i].id : i \in DOMAIN decisions }

\* The decisions that a handle constructed now would hold.
FreshlyLoaded == load_state(WorkerHandle(1)).h.state.decisions

\* C16: when independent handles over the same file have each recorded a
\* decision, in any interleaving, no record is lost: a handle loaded
\* afterwards returns every decision that was recorded.
C16_NoDecisionLost ==
  AllDone => DecisionIds(FreshlyLoaded) = 1..uuid

\* C17: when the callers of one shared handle have each recorded a
\* decision, in any interleaving of the appends and the saves under the
\* lock, the decision list in memory holds every record and so does the
\* last snapshot written to the file.
C17_SharedHandleKeepsAll ==
  AllDone =>
    /\ Len(mem[1].decisions) = NWorkers
    /\ DecisionIds(mem[1].decisions) = 1..NWorkers
    /\ disk = [ exists |-> TRUE, data |-> serialize_state(mem[1]) ]
    /\ DecisionIds(FreshlyLoaded) = 1..NWorkers

\* Every caller had appended before the first save serialized the state.
C17_Witness ==
  /\ AllDone
  /\ Cardinality(snapshots) = 1
  /\ Len(mem[1].decisions) = NWorkers

\* C18: the real path never holds a partially written document: at every
\* instant it either does not exist or holds one whole snapshot that some
\* save serialized.
C18_NoTornFile ==
  disk.exists => disk.data \in snapshots

\* A process is constructing its handle while another one has a partly
\* written temporary file and the real path holds an earlier snapshot.
C18_Witness ==
  /\ disk.exists
  /\ tmp.exists
  /\ NotJson(tmp.data)
  /\ \E w \in Workers : pc[w] = "start"

\* ---------------------------------------------------------------------- C21
CalledGetActiveBlockers == last.op = "get_active_blockers"

IsActive(b) == b.status \in { "OPEN", "IN_PROGRESS" }

\* The rank of the specification: Critical < High < Medium < Low.
Rank(impact) ==
  CASE impact = "CRITICAL" -> 1
    [] impact = "HIGH"     -> 2
    [] impact = "MEDIUM"   -> 3
    [] impact = "LOW"      -> 4

\* C21: get_active_blockers returns exactly the blockers whose status is
\* Open or InProgress, each once, in the order of the priority rank
\* Critical < High < Medium < Low and, within one rank, of ascending
\* creation instant; a Resolved blocker is never in the result.
C21_ActiveBlockersSorted ==
  CalledGetActiveBlockers =>
    LET result == last.result
    IN  /\ \A i \in DOMAIN result : result[i].status # "RESOLVED"
        /\ { result[i] : i \in DOMAIN result }
             = { state.blockers[i] : i \in { j \in DOMAIN state.blockers :
                                              IsActive(state.blockers[j]) } }
        /\ \A i, j \in DOMAIN result : i # j => result[i].id # result[j].id
        /\ \A i, j \in DOMAIN result :
             i < j =>
               \/ Rank(result[i].impact) < Rank(result[j].impact)
               \/ /\ Rank(result[i].impact) = Rank(result[j].impact)
                  /\ result[i].created_at <= result[j].created_at

\* Two active blockers are listed in the other order than they were added:
\* the one created later has the higher priority.
C21_Witness ==
  /\ CalledGetActiveBlockers
  /\ Len(last.result) = 2
  /\ last.result[1].id > last.result[2].id
  /\ last.result[1].created_at > last.result[2].created_at

\* ---------------------------------------------------------------------- C25
CalledGetDecisions == last.op = "get_decisions"

\* The decisions a query with the bound since is to return: all of them
\* without a bound, else those recorded at or after the instant of the bound.
Since(decisions, since) ==
  { decisions[i] : i \in { j \in DOMAIN decisions :
                             \/ since = << >>
                             \/ decisions[j].timestamp >= since[1].t } }

\* C25: get_decisions returns exactly the recorded decisions whose timestamp
\* is at or after the since bound (all of them without a bound), each once,
\* the later ones first; a decision recorded exactly at the bound is in the
\* result.
C25_DecisionsSince ==
  CalledGetDecisions =>
    LET result == last.result
    IN  /\ { result[i] : i \in DOMAIN result }
             = Since(state.decisions, last.args.since)
        /\ \A i, j \in DOMAIN result :
             i < j => /\ result[i].id # result[j].id
                      /\ result[i].timestamp >= result[j].timestamp

\* ---------------------------------------------------------------------- C22
CalledUpdateContext == last.op = "update_agent_context"

\* The default context of the specification: Idle, no output, no work
\* products, no metadata.
DefaultContext ==
  [ status |-> "IDLE", last_output |-> <<>>, work_products |-> <<>>,
    metadata |-> <<>> ]

\* The context the call started from: the agent's own, or the default one.
Previous(agent_name) ==
  IF agent_name \in DOMAIN prev.agent_context
    THEN prev.agent_context[agent_name]
    ELSE DefaultContext

\* C22: update_agent_context is an upsert: each field given takes the value
\* given, each field not given keeps the value of the agent's previous
\* context, or of the default context for an agent not seen before; the
\* last-active timestamp is the time of the call; no other agent's context
\* and no other part of the aggregate changes; the call persists.
C22_ContextUpsert ==
  CalledUpdateContext =>
    LET args    == last.args
        old     == Previous(args.agent_name)
        updated == state.agent_context[args.agent_name]
    IN  /\ updated.status
             = IF args.status # None THEN args.status ELSE old.status
        /\ updated.last_output
             = IF args.output # <<>> THEN args.output ELSE old.last_output
        /\ updated.work_products
             = IF args.work_products # <<>> THEN args.work_products[1]
                                           ELSE old.work_products
        /\ updated.metadata
             = IF args.metadata # <<>> THEN args.metadata[1]
                                      ELSE old.metadata
        /\ updated.last_active = utcnow(now)
        /\ DOMAIN state.agent_context
             = DOMAIN prev.agent_context \cup { args.agent_name }
        /\ \A other \in DOMAIN prev.agent_context \ { args.agent_name } :
             state.agent_context[other] = prev.agent_context[other]
        /\ [ state EXCEPT !.agent_context = prev.agent_context ] = prev
        /\ last.writes >= 1
        /\ disk = [ exists |-> TRUE, data |-> serialize_state(state) ]

\* An agent whose context holds a status, work products and metadata given
\* earlier gets a new output alone, at a later time.
C22_Witness ==
  /\ CalledUpdateContext
  /\ last.args.agent_name \in DOMAIN prev.agent_context
  /\ last.args.status = None
  /\ last.args.work_products = <<>>
  /\ last.args.metadata = <<>>
  /\ last.args.output # <<>>
  /\ Previous(last.args.agent_name).status = "WORKING"
  /\ Previous(last.args.agent_name).work_products # <<>>
  /\ Previous(last.args.agent_name).metadata # <<>>
  /\ Previous(last.args.agent_name).last_active
       # state.agent_context[last.args.agent_name].last_active

\* ---------------------------------------------------------------------- C24
\* C24: completing a pending action that exists puts in its place a record
\* whose status is Complete, whose completed timestamp is set, and which
\* carries the outcome text passed to complete_pending_action when one was
\* given.
C24_OutcomeCarried ==
  (CalledComplete /\ last.result = TRUE) =>
    LET completed ==
          state.pending_actions[find_id(prev.pending_actions,
                                        last.args.action_id)]
    IN  /\ completed.status = "COMPLETE"
        /\ completed.completed_at # <<>>
        /\ last.args.outcome # <<>> =>
             /\ "outcome" \in DOMAIN completed
             /\ << completed.outcome >> = last.args.outcome

\* ---------------------------------------------------------------------- C26
LoadedNoFile == CalledLoad /\ ~ last.args.file.exists

\* C26: a load that finds no backing file returns a fresh aggregate: phase
\* Init; empty transition log, handover log, blockers, pending actions and
\* decisions; all counters zero; one Idle context for each of the 9 agents
\* of the roster, of which the Coordinator's alone has a last output and a
\* last-active value; and the load creates no backing file.
C26_FreshAggregate ==
  LoadedNoFile =>
    /\ last.result.raised = None
    /\ state.current_state = "INIT"
    /\ state.state_history = <<>>
    /\ state.handover_log = <<>>
    /\ state.blockers = <<>>
    /\ state.pending_actions = <<>>
    /\ state.decisions = <<>>
    /\ state.metrics.total_features = 0
    /\ state.metrics.total_handovers = 0
    /\ state.metrics.rejected_handovers = 0
    /\ state.metrics.average_cycle_time = 0
    /\ state.metrics.rework_patterns = <<>>
    /\ \A s \in DOMAIN state.metrics.state_cycle_times :
         state.metrics.state_cycle_times[s] = 0
    /\ \A a \in DOMAIN state.metrics.agent_utilization :
         state.metrics.agent_utilization[a] = 0
    /\ Cardinality(DOMAIN state.agent_context) = 9
    /\ "Coordinator" \in DOMAIN state.agent_context
    /\ \A a \in DOMAIN state.agent_context :
         /\ state.agent_context[a].status = "IDLE"
         /\ state.agent_context[a].last_output # <<>> <=> a = "Coordinator"
         /\ state.agent_context[a].last_active # None <=> a = "Coordinator"
    /\ last.writes = 0
    /\ ~ disk.exists

\* A handle is constructed over a path whose unreadable file an earlier
\* load has moved away.
C26_Witness ==
  /\ LoadedNoFile
  /\ backup.exists

\* ---------------------------------------------------------------------- C27
Approved == CalledHandover /\ last.result.success

CalledSetFeature == last.op = "set_current_feature"

CalledClearFeature == last.op = "clear_current_feature"

\* The list given for an optional list argument, the empty one for none.
Given(list) == IF list # <<>> THEN list[1] ELSE <<>>

\* C23: the current feature changes only by set_current_feature, which puts
\* the new feature in the place of any active one without merging the two,
\* and by clear_current_feature, which sets it to none; a transition, a
\* handover (approved or rejected, also one into COMPLETE), a context
\* update and a blocker, action or decision operation leave it unchanged.
C23_FeatureFrame ==
  /\ CalledSetFeature =>
       state.current_feature
         = << [ name                |-> last.args.name,
                branch              |-> last.args.branch,
                description         |-> last.args.description,
                started_at          |-> now,
                acceptance_criteria |-> Given(last.args.criteria),
                linked_issues       |-> Given(last.args.linked_issues) ] >>
  /\ CalledClearFeature => state.current_feature = <<>>
  /\ ~ (CalledSetFeature \/ CalledClearFeature) =>
       state.current_feature = prev.current_feature

\* An approved handover takes the workflow into COMPLETE while a feature
\* with acceptance criteria is active and a blocker is on record.
C23_Witness ==
  /\ CalledHandover
  /\ last.result.success
  /\ state.current_state = "COMPLETE"
  /\ state.current_feature # <<>>
  /\ state.current_feature[1].acceptance_criteria # <<>>
  /\ state.blockers # <<>>

\* ---------------------------------------------------------------------- C28
\* The positions between an acquisition of the lock and its release.
Critical ==
  { "reading", "read", "locked", "writing", "written", "renamed", "failed" }

InCritical == { w \in Workers : pc[w] \in Critical }

\* A step of a caller that writes the temporary path or renames it over
\* the real one.
TouchesFiles == pc' # pc /\ (tmp' # tmp \/ disk' # disk)

\* C28: the lock gives mutual exclusion and is always released: at most one
\* caller at a time is between acquisition and release, and it is the
\* holder; the temporary file is written and renamed only by the holder
\* while it holds the lock; and a caller that has left the critical
\* section, by returning or because the write or the rename has failed, no
\* longer holds the lock.
C28_LockExcludesAndIsReleased ==
  /\ [] ( /\ Cardinality(InCritical) <= 1
          /\ \A w \in Workers : lock = w <=> w \in InCritical )
  /\ [][ TouchesFiles =>
           /\ lock # 0
           /\ lock' = lock
           /\ pc[lock] \in Critical
           /\ pc'[lock] # pc[lock] ]_vars

\* A save has failed and its caller has the exception while another caller
\* holds the lock and writes.
C28_Witness ==
  \E w, v \in Workers :
    /\ pc[w] = "raised"
    /\ pc[v] = "writing"
    /\ lock = v

\* ---------------------------------------------------------------------- C29
Loading == { w \in Workers : pc[w] \in { "reading", "read" } }

Saving ==
  { w \in Workers :
      pc[w] \in { "locked", "writing", "written", "renamed", "failed" } }

Failed == { w \in Workers : pc[w] \in { "failed", "raised" } }

\* The decisions of the document in the real path.
OnDisk ==
  IF disk.exists /\ "decisions" \in DOMAIN disk.data
    THEN DecisionIds(disk.data.decisions)
    ELSE {}

\* C30: when the write inside a save fails, the failure propagates to the
\* caller as a hard error with no retry, the in-memory aggregate keeps the
\* mutation, and the real path still holds the last complete snapshot
\* written before the failure: the record is in memory and not in the
\* file, the steps from the failure to the caller change neither the file
\* nor the aggregate, the caller that has the exception does not go back
\* to the write, and the file is a whole snapshot or absent.
C30_FailedWritePropagates ==
  /\ [] ( /\ \A w \in Failed :
               /\ mem[w].decisions # <<>>
               /\ ~ (DecisionIds(mem[w].decisions) \subseteq OnDisk)
          /\ disk.exists => disk.data \in snapshots )
  /\ [][ \A w \in Workers :
           /\ (pc'[w] \in { "failed", "raised" } /\ pc'[w] # pc[w]) =>
                disk' = disk /\ mem'[w] = mem[w]
           /\ pc[w] = "raised" => pc'[w] = "raised" ]_vars

\* A save has failed after the caller had loaded the decision that another
\* caller saved: the file holds that snapshot, the memory both decisions.
C30_Witness ==
  \E w \in Workers :
    /\ pc[w] = "raised"
    /\ disk.exists
    /\ OnDisk # {}
    /\ Len(mem[w].decisions) = 2


\* ---------------------------------------------------- agent names reloaded
\* get_agent_context: the context stored under the name, if any.
get_agent_context(h, agent_name) ==
  IF agent_name \in DOMAIN h.state.agent_context
    THEN << h.state.agent_context[agent_name] >>
    ELSE <<>>

\* The handle before the call of last, with the aggregate it held.
Before == [ Handle EXCEPT !.state = prev ]

\* C32: after a save and a load in a fresh handle the agent-context map has
\* the keys it had before, the single-word roster names Coordinator,
\* Developer and Reviewer among them, and get_agent_context(name) returns
\* for every name the context it returned before.
C32_AgentNamesSurvive ==
  LoadedOwnSave =>
    /\ DOMAIN state.agent_context = DOMAIN prev.agent_context
    /\ \A name \in DOMAIN prev.agent_context :
         get_agent_context(Handle, name) = get_agent_context(Before, name)


\* --------------------------------------------------- metric map keys kept
\* The call of last has written the aggregate to the file.
Saved == last.op \in { "clear_current_feature", "update_agent_context" }

\* The load of last has parsed the file it found.
LoadedDocument ==
  /\ CalledLoad
  /\ last.args.file.exists
  /\ last.result = LoadResult(None, FALSE)

\* C31: the keys of the per-phase cycle-time map and of the per-agent
\* utilization map are never transcoded: a save writes each map to the file
\* under the keys it has in memory, and a load gives each map the keys it
\* has in the file, whatever the shape of the key.
C31_MetricKeysKept ==
  /\ Saved =>
       /\ disk.data.metrics.stateCycleTimes = state.metrics.state_cycle_times
       /\ disk.data.metrics.agentUtilization
            = state.metrics.agent_utilization
  /\ LoadedDocument =>
       /\ state.metrics.state_cycle_times
            = last.args.file.data.metrics.stateCycleTimes
       /\ state.metrics.agent_utilization
            = last.args.file.data.metrics.agentUtilization


\* ------------------------------------------------------ recovery and races
\* json.load or _deserialize_state fails on the file.
Unreadable(file) == file.exists /\ read_raises(file) # None

\* C35: a load only ever moves an unreadable file to the backup path: the
\* file it renames is one that does not parse, never a complete snapshot
\* that a concurrent save of another handle has put at the real path.
C35_OnlyUnreadableQuarantined ==
  [][backup' # backup => Unreadable(backup')]_vars

\* C36: no load raises while other handles load or save the same file,
\* neither for the gap between exists() and open nor when two handles
\* recover from the same corrupt file.
C36_LoadNeverRaises ==
  \A w \in Lockers : pc[w] # "raised"


\* ------------------------------------------------- counters and the logs
\* The records of a handover log of the file with the given status.
WithStatus(log, status) == { i \in DOMAIN log : log[i].status = status }

\* C33: in every document written to the file, the intermediate ones of an
\* approved handover among them, total_handovers is the number of records
\* of the handover log and rejected_handovers the number of its Rejected
\* records.
C33_CountersMatchLog ==
  disk.exists =>
    /\ disk.data.metrics.totalHandovers = Len(disk.data.handoverLog)
    /\ disk.data.metrics.rejectedHandovers
         = Cardinality(WithStatus(disk.data.handoverLog, "REJECTED"))

\* No call on the shared handle is under way.
Quiet == \A w \in Lockers : pc[w] \in { "start", "ready", "returned" }

\* The Approved records of a handover between the agents and phases of
\* record, and the transitions that such handovers have made.
SameHandover(s, record) ==
  { i \in WithStatus(s.handover_log, "APPROVED") :
      /\ s.handover_log[i].from_agent = record.from_agent
      /\ s.handover_log[i].to_agent = record.to_agent
      /\ s.handover_log[i].from_state = record.from_state
      /\ s.handover_log[i].to_state = record.to_state }

OwnTransitions(s, record) ==
  { j \in DOMAIN s.state_history :
      /\ s.state_history[j].from_state = record.from_state
      /\ s.state_history[j].to_state = record.to_state
      /\ s.state_history[j].reason
           = HandoverReason(record.from_agent, record.to_agent) }

\* C34: every Approved record of the handover log has a transition of its
\* own in the transition log, from the same phase to the same phase, also
\* when two callers interleave transition_state and add_handover on one
\* handle.
C34_ApprovedHasTransition ==
  Quiet =>
    \A i \in WithStatus(mem[1].handover_log, "APPROVED") :
      Cardinality(SameHandover(mem[1], mem[1].handover_log[i]))
        <= Cardinality(OwnTransitions(mem[1], mem[1].handover_log[i]))


\* -------------------------------------------------- the persisted phase
\* A save has replaced the document at the real path.
Rewritten == disk.exists /\ disk'.exists /\ disk' # disk

\* C38: from each document written to the file to the next, by whichever
\* handle, the persisted current phase stays or moves along one edge of the
\* transition table: a handle that loaded an older document never writes
\* the phase back to one that is no valid target.
C38_PersistedPhaseFollowsEdges ==
  [][Rewritten =>
       \/ disk'.data.currentState = disk.data.currentState
       \/ IsEdge(disk.data.currentState, disk'.data.currentState)]_vars


\* ------------------------------------------------ memory and file agree
\* A public call has returned and has changed self._state.
Mutated == last # NoCall /\ state # prev

\* C37: with one handle and no storage fault, when a mutating operation
\* that has changed self._state returns, the file holds the document of
\* self._state as it is: no operation, and no return path of add_handover,
\* leaves a change in memory that was not written.
C37_FileFollowsMemory ==
  Mutated =>
    /\ disk.exists
    /\ disk.data = serialize_state(state)
    /\ last.writes >= 1

\* A handover was rejected: its record is in the log and in the file.
C37_Witness ==
  /\ Mutated
  /\ last.op = "add_handover"
  /\ ~ last.result.success
  /\ Len(state.handover_log) = Len(prev.handover_log) + 1
  /\ disk.data = serialize_state(state)


\* ------------------------------------------------------ the workflow graph
\* A handle whose current phase is s, and the phases that transition_state
\* accepts as the next one when called on it.
PhaseHandle(s) ==
  [ state |-> [ create_initial_state EXCEPT !.current_state = s ],
    disk |-> NoFile, uuid |-> 0, writes |-> 0, now |-> 0, backup |-> NoFile ]

Accepted(s) ==
  { t \in States :
      transition_state(PhaseHandle(s), s, t, <<"reason">>, None).result.success }

AcceptedEdges == [ s \in States |-> Accepted(s) ]

RECURSIVE Closure(_)
\* The phases that sequences of accepted transitions reach from the phases
\* of seen.
Closure(seen) ==
  LET next == seen \cup UNION { AcceptedEdges[s] : s \in seen }
  IN  IF next = seen THEN seen ELSE Closure(next)

\* C40: the workflow graph has no dead end other than COMPLETE: every one of
\* the ten phases is reached from INIT by accepted transitions, and from
\* every phase other than COMPLETE accepted transitions lead to COMPLETE.
\* The transitions the handle has accepted are edges of this graph.
C40_NoDeadEnd ==
  /\ Closure({ "INIT" }) = States
  /\ \A s \in States \ { "COMPLETE" } : "COMPLETE" \in Closure({ s })
  /\ \A i \in DOMAIN state.state_history :
       state.state_history[i].to_state
         \in AcceptedEdges[state.state_history[i].from_state]
  /\ state.current_state # "COMPLETE" =>
       "COMPLETE" \in Closure({ state.current_state })

\* A workflow has gone through all ten phases and is complete.
C40_Witness ==
  /\ state.current_state = "COMPLETE"
  /\ { "INIT" } \cup { state.state_history[i].to_state :
                         i \in DOMAIN state.state_history } = States


\* ------------------------------------------------------------- termination
\* The callers whose load and save have both come to an end, by a return
\* or by an exception.
Finished == { w \in Lockers : pc[w] \in { "done", "raised" } }

\* The positions of a caller outside `with self._file_lock()`.
Outside == { "start", "found", "caught", "ready", "appended", "done", "raised" }

\* The steps that a caller at each position has before it at most.
StepsLeft ==
  [ start |-> 11, found |-> 10, reading |-> 9, unreadable |-> 8,
    caught |-> 7, read |-> 7, ready |-> 6, appended |-> 5, locked |-> 4,
    writing |-> 3, written |-> 2, renamed |-> 1, failed |-> 1, done |-> 0,
    raised |-> 0 ]

\* The steps of the callers other than the read of a load, and whether some
\* caller can take a step: the read under the lock always can, it returns
\* or raises.
OtherSteps ==
  \/ LoadExists \/ LoadAcquire \/ LoadRelease \/ RecoverRelease
  \/ RecoverRename \/ ReleaseFailed \/ ProcAppend \/ AcquireLock
  \/ ProcWrite \/ CloseTmp \/ Rename \/ ReleaseLock

CanStep ==
  \/ ENABLED OtherSteps
  \/ \E w \in Lockers :
       /\ pc[w] = "reading"
       /\ read_raises(disk) \in
            { None, "FileNotFoundError", "JSONDecodeError", "KeyError",
              "ValueError" }

\* C39: with a finite number of handles contending for the lock, every
\* load and every save comes to an end, by a return or by an exception.  The lock is acquired only when
\* nobody holds it, so never by the caller that holds it; no caller is
\* outside the with statement holding the lock; in every state some caller
\* can take a step, unless all have finished; and every step of a caller
\* takes it nearer to the end of its save, so that no run goes on for ever
\* and a run in which callers that can step do step ends with all finished.
C39_LoadsAndSavesComplete ==
  /\ [] ( /\ \A w \in Lockers : pc[w] \in Outside => lock # w
          /\ CanStep \/ Finished = Lockers )
  /\ [][ /\ \A w \in Lockers : (lock' = w /\ lock # w) => lock = 0
         /\ \A w \in Lockers :
              pc'[w] # pc[w] => StepsLeft[pc'[w]] < StepsLeft[pc[w]] ]_vars

\* Every caller has loaded and saved, and the lock is free.
C39_Witness ==
  /\ \A w \in Lockers : pc[w] = "done"
  /\ lock = 0
  /\ disk.exists
  /\ tmp = NoFile

=============================================================================
